---- MODULE Spec2Model ----
(***************************************************************************)
(* Model of laith43d/nfc-tools: the URI record builder, TLV page writer    *)
(* and formatter of nfcwriter, and the TLV / NDEF / URI decoders, tag type *)
(* detector and lock-byte reports of the tag reader.  Strings and byte     *)
(* slices are sequences of bytes (0..255); offsets are 0-based as in the   *)
(* Go source.                                                              *)
(***************************************************************************)
EXTENDS Integers, Sequences, FiniteSets, TLC

VARIABLES
    uri,        \* nfcwriter: the URI handed to buildURIRecord
    ndef,       \* nfcwriter: the NDEF message handed to writeNDEFToType2
    tlv,        \* writeNDEFToType2: the padded TLV buffer
    idx,        \* writeNDEFToType2: loop index i
    page,       \* writeNDEFToType2: page counter (a byte)
    writes,     \* page-write APDUs transmitted so far, in order
    pc,         \* position of the harness / pipeline
    decoded,    \* round trip: result of the reader's decoders on ndef
    payload,    \* parseURIPayload: the payload under decode
    uriOut,     \* parseURIPayload: its result
    data,       \* analyzeNDEFStructure: the buffer
    offset,     \* analyzeNDEFStructure: loop offset
    foundNDEF,  \* analyzeNDEFStructure: foundNDEF flag
    entries,    \* analyzeNDEFStructure: TLV entries reported so far
    parsed,     \* analyzeNDEFStructure: arguments of parseNDEFMessage calls
    touched,    \* analyzeNDEFStructure: 0-based indices of data read so far
    apc,        \* analyzeNDEFStructure: "scan" | "returned" | "ended" | "idle"
    mdata,      \* parseNDEFMessage: the message bytes
    moff,       \* parseNDEFMessage: loop offset
    mrecs,      \* parseNDEFMessage: one entry per loop iteration
    mpc,        \* parseNDEFMessage: "loop" | "stopped" | "exhausted" | "empty"
    mem,        \* the tag: page -> 4 bytes
    reads,      \* page reads requested so far, in order
    tagType,    \* identifyTagType: its result
    tpc,        \* identifyTagType: position
    fresult,    \* formatType2Tag: the step about to run, "ok", or the step that failed
    kpc,        \* analyzeLockBytes / readFullTag configuration listing: position
    lockedPages,\* analyzeLockBytes: the locked pages it lists
    labels,     \* pages read and labelled by the lock / configuration reports
    tpayload,   \* parseTextPayload: the payload under decode
    textOut,    \* parseTextPayload: its result
    present,    \* the reader: a card lies on it
    placement,  \* the reader: number of card placements so far
    cardUID,    \* the card: its UID bytes
    cycles,     \* nfcwriter main: loop iterations that left waitForCardPresent
    wpc,        \* nfcwriter main: position
    tries,      \* nfcwriter main: connect loop counter i
    connected,  \* nfcwriter main: a card handle is open
    polled,     \* waitForCardRemoval: rs[0].EventState holds a reported state
    uidv,       \* nfcwriter main: uid as getUID returned it
    events,     \* nfcwriter main: the reader calls and their outcomes, in order
    allNDEFData,\* readFullTag: the bytes collected from the data pages
    origin,     \* for each byte of allNDEFData, the tag address it was read from
    spage,      \* readFullTag: page counter of the data page loop
    consecutiveErrors, \* readFullTag: consecutiveErrors
    faults,     \* reads of this pass that were not a plain 4-byte answer
    spc,        \* readFullTag: position
    fuid,       \* formatUID: the UID bytes
    fformat,    \* formatUID: s.config.UIDFormat
    fout,       \* formatUID: the string returned
    sctx,       \* uid service: s.ctx (0 is nil, otherwise a context id)
    ctxSeen,    \* values s.ctx has held since the signal goroutine was started
    ctxs,       \* PC/SC contexts: id -> state, number of Release calls, origin
    running,    \* uid service: s.running
    visible,    \* the last write to s.running has reached the main goroutine
    usedReleased, \* a reader call was issued on a released context
    initOk,     \* a call of Initialize has returned nil
    upc,        \* uid service: position of the main goroutine
    gpc,        \* uid service: position of the signal goroutine
    utries,     \* connectToCard: loop counter i
    ucycles,    \* Start: calls of processCardCycle so far
    copies      \* processUID: the clipboard copies made, in order

wvars == <<uri, ndef, tlv, idx, page, writes, pc, decoded>>
uvars == <<payload, uriOut>>
avars == <<data, offset, foundNDEF, entries, parsed, touched, apc>>
mvars == <<mdata, moff, mrecs, mpc>>
tvars == <<mem, reads, tagType, tpc, fresult>>
kvars == <<kpc, lockedPages, labels>>
xvars == <<tpayload, textOut>>
lvars == <<present, placement, cardUID, cycles, wpc, tries, connected, polled, uidv, events>>
rvars == <<allNDEFData, origin, spage, consecutiveErrors, faults, spc>>
fvars == <<fuid, fformat, fout>>
svars == <<sctx, ctxSeen, ctxs, running, visible, usedReleased, initOk, upc, gpc,
           utries, ucycles, copies>>
ovars == <<fvars, svars>>
nvars == <<xvars, lvars, rvars, ovars>>
vars  == <<uri, ndef, tlv, idx, page, writes, pc, decoded,
           payload, uriOut,
           data, offset, foundNDEF, entries, parsed, touched, apc,
           mdata, moff, mrecs, mpc,
           mem, reads, tagType, tpc, fresult,
           kpc, lockedPages, labels,
           tpayload, textOut,
           present, placement, cardUID, cycles, wpc, tries, connected, polled, uidv, events,
           allNDEFData, origin, spage, consecutiveErrors, faults, spc,
           fuid, fformat, fout,
           sctx, ctxSeen, ctxs, running, visible, usedReleased, initOk, upc, gpc,
           utries, ucycles, copies>>

(***************************************************************************)
(* Bounds of the model.                                                    *)
(***************************************************************************)
MaxShortFill == 2
LongFillFrom == 246
LongFillSpan == 11
MaxShortMsg == 5
LongMsgFrom == 251
LongMsgSpan == 5
MaxSuffix == 2
MaxBuf == 5
MaxMsgBuf == 4
MemTop == 6
MaxTextBody == 4
MaxPlacements == 2
MaxCycles == 2
MaxFaults == 1
MaxLongUID == 6
MaxServiceCycles == 2

(***************************************************************************)
(* Byte-slice helpers (Go semantics, 0-based).                             *)
(***************************************************************************)
Byte == 0..255

At(s, i) == s[i + 1]

Slice(s, a, b) == SubSeq(s, a + 1, b)

SliceFrom(s, a) == SubSeq(s, a + 1, Len(s))

Zeros(n) == [k \in 1..n |-> 0]

HasPrefix(s, p) == Len(s) >= Len(p) /\ SubSeq(s, 1, Len(p)) = p

TrimPrefix(s, p) == IF HasPrefix(s, p) THEN SliceFrom(s, Len(p)) ELSE s

ToByte(n) == n % 256

HTTP == <<104, 116, 116, 112, 58, 47, 47>>

HTTPS == <<104, 116, 116, 112, 115, 58, 47, 47>>

FTP == <<102, 116, 112, 58, 47, 47>>

(***************************************************************************)
(* nfcwriter: buildURIRecord.                                              *)
(***************************************************************************)
TrimmedURI(u) == TrimPrefix(TrimPrefix(u, HTTP), HTTPS)

URIPayloadCode3(u) == <<3>> \o TrimmedURI(u)

URIPayload(u) == <<4>> \o TrimmedURI(u)

buildURIRecord(u) ==
    LET pl == URIPayload(u)
        header == 209
        typeLen == 1
        payloadLen == ToByte(Len(pl))
        typ == 85
    IN  <<header, typeLen, payloadLen, typ>> \o pl

(***************************************************************************)
(* nfcwriter: writeNDEFToType2 and writePage.                              *)
(***************************************************************************)
TooLargeOffByOne(m) == Len(m) > 255

TooLargeNever(m) == FALSE

TooLarge(m) == Len(m) > 254

PadLenNoWrap(n) == 4 - (n % 4)

PadLen(n) == (4 - (n % 4)) % 4

PaddedTLV(m) ==
    LET t == <<3, ToByte(Len(m))>> \o m \o <<254>>
    IN  t \o Zeros(PadLen(Len(t)))

(***************************************************************************)
(* Reader: getURIPrefix and parseURIPayload.                               *)
(***************************************************************************)
prefixes ==
    << <<>>,
       <<104, 116, 116, 112, 58, 47, 47, 119, 119, 119, 46>>,
       <<104, 116, 116, 112, 115, 58, 47, 47, 119, 119, 119, 46>>,
       <<104, 116, 116, 112, 58, 47, 47>>,
       <<104, 116, 116, 112, 115, 58, 47, 47>>,
       <<116, 101, 108, 58>>,
       <<109, 97, 105, 108, 116, 111, 58>>,
       <<102, 116, 112, 58, 47, 47, 97, 110, 111, 110, 121, 109, 111, 117,
         115, 58, 97, 110, 111, 110, 121, 109, 111, 117, 115, 64>>,
       <<102, 116, 112, 58, 47, 47, 102, 116, 112, 46>>,
       <<102, 116, 112, 115, 58, 47, 47>>,
       <<115, 102, 116, 112, 58, 47, 47>>,
       <<115, 109, 98, 58, 47, 47>>,
       <<110, 102, 115, 58, 47, 47>>,
       <<102, 116, 112, 58, 47, 47>>,
       <<100, 97, 118, 58, 47, 47>>,
       <<110, 101, 119, 115, 58>>,
       <<116, 101, 108, 110, 101, 116, 58, 47, 47>>,
       <<105, 109, 97, 112, 58>>,
       <<114, 116, 115, 112, 58, 47, 47>>,
       <<117, 114, 110, 58>>,
       <<112, 111, 112, 58>>,
       <<115, 105, 112, 58>>,
       <<115, 105, 112, 115, 58>>,
       <<116, 102, 116, 112, 58>>,
       <<98, 116, 115, 112, 112, 58, 47, 47>>,
       <<98, 116, 108, 50, 99, 97, 112, 58, 47, 47>>,
       <<98, 116, 103, 111, 101, 112, 58, 47, 47>>,
       <<116, 99, 112, 111, 98, 101, 120, 58, 47, 47>>,
       <<105, 114, 100, 97, 111, 98, 101, 120, 58, 47, 47>>,
       <<102, 105, 108, 101, 58, 47, 47>>,
       <<117, 114, 110, 58, 101, 112, 99, 58, 105, 100, 58>>,
       <<117, 114, 110, 58, 101, 112, 99, 58, 116, 97, 103, 58>>,
       <<117, 114, 110, 58, 101, 112, 99, 58, 112, 97, 116, 58>>,
       <<117, 114, 110, 58, 101, 112, 99, 58, 114, 97, 119, 58>>,
       <<117, 114, 110, 58, 101, 112, 99, 58>>,
       <<117, 114, 110, 58, 110, 102, 99, 58>> >>

\* The string "Unknown prefix".
UnknownPrefix ==
    <<85, 110, 107, 110, 111, 119, 110, 32, 112, 114, 101, 102, 105, 120>>

getURIPrefixShifted(code) ==
    IF code + 1 \in DOMAIN prefixes /\ code > 0 THEN prefixes[code] ELSE UnknownPrefix

getURIPrefix(code) ==
    IF code + 1 \in DOMAIN prefixes THEN prefixes[code + 1] ELSE UnknownPrefix

NoURI == [err |-> "notcalled", uri |-> <<>>, code |-> 0, prefix |-> <<>>, suffix |-> <<>>]

parseURIPayloadLenient(pl) ==
    IF Len(pl) = 0
    THEN [NoURI EXCEPT !.err = "EmptyURIPayload"]
    ELSE [err |-> "none", uri |-> getURIPrefix(At(pl, 0)) \o SliceFrom(pl, 1),
          code |-> At(pl, 0), prefix |-> getURIPrefix(At(pl, 0)),
          suffix |-> SliceFrom(pl, 1)]

parseURIPayload(pl) ==
    IF Len(pl) = 0
    THEN [NoURI EXCEPT !.err = "EmptyURIPayload"]
    ELSE LET identifierCode == At(pl, 0)
             prefix == getURIPrefix(identifierCode)
         IN  IF Len(pl) > 1
             THEN [err |-> "none", uri |-> prefix \o SliceFrom(pl, 1),
                   code |-> identifierCode, prefix |-> prefix,
                   suffix |-> SliceFrom(pl, 1)]
             ELSE IF prefix # <<>>
                  THEN [err |-> "none", uri |-> prefix, code |-> identifierCode,
                        prefix |-> prefix, suffix |-> <<>>]
                  ELSE [err |-> "NoSuffix", uri |-> <<>>, code |-> identifierCode,
                        prefix |-> prefix, suffix |-> <<>>]

(***************************************************************************)
(* Reader: parseTextPayload.                                               *)
(***************************************************************************)
NoText == [err |-> "notcalled", utf16 |-> FALSE, lang |-> <<>>, text |-> <<>>]

\* A decoder that takes bits 0-6 as the language-code length.
parseTextPayloadSevenBits(pl) ==
    IF Len(pl) = 0
    THEN [NoText EXCEPT !.err = "EmptyTextPayload"]
    ELSE LET statusByte == At(pl, 0)
             utf16 == (statusByte \div 128) % 2 = 1
             langCodeLen == statusByte % 128
         IN  IF Len(pl) < 1 + langCodeLen
             THEN [NoText EXCEPT !.err = "InvalidTextRecord"]
             ELSE [err |-> "none", utf16 |-> utf16,
                   lang |-> Slice(pl, 1, 1 + langCodeLen),
                   text |-> SliceFrom(pl, 1 + langCodeLen)]

parseTextPayload(pl) ==
    IF Len(pl) = 0
    THEN [NoText EXCEPT !.err = "EmptyTextPayload"]
    ELSE LET statusByte == At(pl, 0)
             utf16 == (statusByte \div 128) % 2 = 1
             langCodeLen == statusByte % 64
         IN  IF Len(pl) < 1 + langCodeLen
             THEN [NoText EXCEPT !.err = "InvalidTextRecord"]
             ELSE [err |-> "none", utf16 |-> utf16,
                   lang |-> Slice(pl, 1, 1 + langCodeLen),
                   text |-> SliceFrom(pl, 1 + langCodeLen)]

(***************************************************************************)
(* Reader: parseNDEFMessage.  One loop iteration is ParseRecord; the       *)
(* result carries the record as far as it was decoded, the diagnostic      *)
(* (err), the offset the loop holds when the iteration ends (next) and     *)
(* whether the loop continues.                                             *)
(***************************************************************************)
EmptyRecord ==
    [header |-> 0, mb |-> FALSE, me |-> FALSE, cf |-> FALSE, sr |-> FALSE,
     il |-> FALSE, tnf |-> 0, typeLength |-> 0, payloadLength |-> 0,
     idLength |-> 0, type |-> <<>>, id |-> <<>>, payload |-> <<>>,
     partial |-> FALSE, uri |-> NoURI, text |-> NoText]

LittleEndian32(d, o) ==
    At(d, o) + At(d, o + 1) * 256 + At(d, o + 2) * 65536 + At(d, o + 3) * 16777216

BigEndian32(d, o) ==
    At(d, o) * 16777216 + At(d, o + 1) * 65536 + At(d, o + 2) * 256 + At(d, o + 3)

Iter(rec, err, next, stop) == [rec |-> rec, err |-> err, next |-> next, stop |-> stop]

ParseRecord(d, off) ==
    LET n == Len(d)
        header == At(d, off)
        sr == (header \div 16) % 2 = 1
        il == (header \div 8) % 2 = 1
        me == (header \div 64) % 2 = 1
        r0 == [EmptyRecord EXCEPT !.header = header,
                                  !.mb = (header \div 128) % 2 = 1,
                                  !.me = me,
                                  !.cf = (header \div 32) % 2 = 1,
                                  !.sr = sr, !.il = il, !.tnf = header % 8]
        o1 == off + 1
        typeLength == At(d, o1)
        r1 == [r0 EXCEPT !.typeLength = typeLength]
        o2 == o1 + 1
        payloadLength == IF sr THEN At(d, o2) ELSE BigEndian32(d, o2)
        r2 == [r1 EXCEPT !.payloadLength = payloadLength]
        o3 == IF sr THEN o2 + 1 ELSE o2 + 4
        idLength == IF il THEN At(d, o3) ELSE 0
        r3 == [r2 EXCEPT !.idLength = idLength]
        o4 == IF il THEN o3 + 1 ELSE o3
        recordType == IF typeLength > 0 THEN Slice(d, o4, o4 + typeLength) ELSE <<>>
        r4 == [r3 EXCEPT !.type = recordType]
        o5 == IF typeLength > 0 THEN o4 + typeLength ELSE o4
        hasId == il /\ idLength > 0
        r5 == [r4 EXCEPT !.id = IF hasId THEN Slice(d, o5, o5 + idLength) ELSE <<>>]
        o6 == IF hasId THEN o5 + idLength ELSE o5
        isWellKnown1 == typeLength = 1 /\ Len(recordType) > 0
        remaining == n - o6
        partialPl == SliceFrom(d, o6)
        fullPl == Slice(d, o6, o6 + payloadLength)
        rPartial ==
            IF remaining > 0
            THEN [r5 EXCEPT !.payload = partialPl, !.partial = TRUE,
                            !.uri = IF isWellKnown1 /\ recordType[1] = 85
                                    THEN parseURIPayload(partialPl) ELSE NoURI]
            ELSE r5
        rFull ==
            [r5 EXCEPT !.payload = fullPl,
                       !.uri = IF isWellKnown1 /\ recordType[1] = 85
                               THEN parseURIPayload(fullPl) ELSE NoURI,
                       !.text = IF isWellKnown1 /\ recordType[1] = 84
                                THEN parseTextPayload(fullPl) ELSE NoText]
    IN  IF o1 >= n THEN Iter(r0, "MissingTypeLength", o1, TRUE)
        ELSE IF sr /\ o2 >= n THEN Iter(r1, "MissingPayloadLengthShort", o2, TRUE)
        ELSE IF ~sr /\ o2 + 3 >= n THEN Iter(r1, "MissingPayloadLengthLong", o2, TRUE)
        ELSE IF il /\ o3 >= n THEN Iter(r2, "MissingIDLength", o3, TRUE)
        ELSE IF typeLength > 0 /\ o4 + typeLength > n
             THEN Iter(r3, "TypeTruncated", o4, TRUE)
        ELSE IF hasId /\ o5 + idLength > n THEN Iter(r4, "IDTruncated", o5, TRUE)
        ELSE IF payloadLength > 0 /\ o6 + payloadLength > n
             THEN Iter(rPartial, "PayloadTruncated", o6, TRUE)
        ELSE IF payloadLength > 0 THEN Iter(rFull, "none", o6 + payloadLength, me)
        ELSE Iter(r5, "none", o6, me)

RECURSIVE ParseRecords(_, _, _)
ParseRecords(d, off, acc) ==
    IF off < Len(d)
    THEN LET it == ParseRecord(d, off)
             out == [records |-> Append(acc.records, it.rec), err |-> it.err,
                     offset |-> it.next, sawME |-> it.rec.me /\ it.err = "none"]
         IN  IF it.stop THEN out ELSE ParseRecords(d, it.next, out)
    ELSE acc

NoMessage == [records |-> <<>>, err |-> "notcalled", offset |-> 0, sawME |-> FALSE]

parseNDEFMessage(d) ==
    IF Len(d) = 0
    THEN [NoMessage EXCEPT !.err = "EmptyMessage"]
    ELSE ParseRecords(d, 0, [NoMessage EXCEPT !.err = "none"])

(***************************************************************************)
(* Inputs.                                                                 *)
(***************************************************************************)
Fill(n) == [k \in 1..n |-> 97 + (k % 26)]

FillLens == (0..MaxShortFill) \cup (LongFillFrom..(LongFillFrom + LongFillSpan))

Schemes == {<<>>, HTTP, HTTPS, FTP, HTTP \o HTTPS, HTTPS \o HTTP,
            HTTP \o HTTP, HTTPS \o HTTPS}

URIs == {sch \o Fill(n) : sch \in Schemes, n \in FillLens}

Msg(n, b) == [k \in 1..n |-> (b + k) % 256]

MsgLens == (0..MaxShortMsg) \cup (LongMsgFrom..(LongMsgFrom + LongMsgSpan))

Messages == {Msg(n, b) : n \in MsgLens, b \in {0, 208, 253}}

SeqsUpTo(S, n) == UNION {[1..k -> S] : k \in 0..n}

Payloads == {<<>>} \cup {<<c>> \o sfx : c \in Byte, sfx \in SeqsUpTo({0, 47, 97}, MaxSuffix)}

TLVAlphabet == {0, 1, 2, 3, 254, 255}

ExampleBuffers == {<<3, 5>> \o v \o <<254, 153>> : v \in [1..5 -> {3, 209, 254}]}

Buffers == SeqsUpTo(TLVAlphabet, MaxBuf) \cup ExampleBuffers

(***************************************************************************)
(* Idle values of the components a specification does not exercise.        *)
(***************************************************************************)
NoDecoded == [uri |-> NoURI, msg |-> NoMessage]

WriterIdle ==
    /\ uri = <<>> /\ ndef = <<>> /\ tlv = <<>> /\ idx = 0 /\ page = 0
    /\ writes = <<>> /\ pc = "idle" /\ decoded = NoDecoded

URIIdle == payload = <<>> /\ uriOut = NoURI

AnalyzeIdle ==
    /\ data = <<>> /\ offset = 0 /\ foundNDEF = FALSE /\ entries = <<>>
    /\ parsed = <<>> /\ touched = {} /\ apc = "idle"

MessageIdle == mdata = <<>> /\ moff = 0 /\ mrecs = <<>> /\ mpc = "idle"

BlankPage == <<0, 0, 0, 0>>

NoTag == [p \in {} |-> BlankPage]

TagIdle ==
    /\ mem = NoTag /\ reads = <<>> /\ tagType = "" /\ tpc = "idle"
    /\ fresult = "idle"

LockIdle == kpc = "idle" /\ lockedPages = <<>> /\ labels = <<>>

TextIdle == tpayload = <<>> /\ textOut = NoText

MainIdle ==
    /\ present = FALSE /\ placement = 0 /\ cardUID = <<>> /\ cycles = 0
    /\ wpc = "idle" /\ tries = 0 /\ connected = FALSE /\ polled = FALSE
    /\ uidv = <<>> /\ events = <<>>

ReaderIdle ==
    /\ allNDEFData = <<>> /\ origin = <<>> /\ spage = 0 /\ consecutiveErrors = 0
    /\ faults = 0 /\ spc = "idle"

NotFormatted == <<0>>

FormatIdle == fuid = <<>> /\ fformat = "" /\ fout = NotFormatted

MaxCtx == 3

NoContext == [state |-> "unused", releases |-> 0, good |-> FALSE]

ServiceIdle ==
    /\ sctx = 0 /\ ctxSeen = {} /\ ctxs = [c \in 1..MaxCtx |-> NoContext]
    /\ running = FALSE /\ visible = TRUE /\ usedReleased = FALSE /\ initOk = FALSE
    /\ upc = "idle" /\ gpc = "idle" /\ utries = 0 /\ ucycles = 0 /\ copies = <<>>

OtherIdle == FormatIdle /\ ServiceIdle

\* The components added after the lock reports are not exercised.
RestIdle == TextIdle /\ MainIdle /\ ReaderIdle /\ OtherIdle

(***************************************************************************)
(* nfcwriter pipeline: buildURIRecord, then writeNDEFToType2.              *)
(***************************************************************************)
Init ==
    /\ uri \in URIs
    /\ ndef = <<>> /\ tlv = <<>> /\ idx = 0 /\ page = 0 /\ writes = <<>>
    /\ pc = "start" /\ decoded = NoDecoded
    /\ URIIdle /\ AnalyzeIdle /\ MessageIdle /\ TagIdle /\ LockIdle /\ RestIdle

BuildURIRecord ==
    /\ pc = "start"
    /\ ndef' = buildURIRecord(uri)
    /\ pc' = "built"
    /\ UNCHANGED <<uri, tlv, idx, page, writes, decoded, uvars, avars, mvars, tvars, kvars, nvars>>

\* writeNDEFToType2 up to its loop: the size check, the TLV and its padding.
WriteNDEFBegin ==
    /\ pc = "built"
    /\ IF TooLarge(ndef)
       THEN /\ pc' = "toolarge"
            /\ UNCHANGED <<tlv, idx, page, nvars>>
       ELSE /\ tlv' = PaddedTLV(ndef)
            /\ idx' = 0
            /\ page' = 4
            /\ pc' = "writing"
    /\ UNCHANGED <<uri, ndef, writes, decoded, uvars, avars, mvars, tvars, kvars, nvars>>

\* writePage transmits the APDU only for a 4-byte chunk.
WriteAPDU(pg, chunk, ok) == [page |-> pg, data |-> chunk, ok |-> ok]

\* One loop iteration whose writePage succeeds.
WritePageOk ==
    /\ pc = "writing"
    /\ idx < Len(tlv)
    /\ LET chunk == Slice(tlv, idx, idx + 4)
       IN  /\ Len(chunk) = 4
           /\ writes' = Append(writes, WriteAPDU(page, chunk, TRUE))
    /\ page' = ToByte(page + 1)
    /\ idx' = idx + 4
    /\ UNCHANGED <<uri, ndef, tlv, pc, decoded, uvars, avars, mvars, tvars, kvars, nvars>>

\* One loop iteration whose writePage fails: the loop returns the error.
WritePageFail ==
    /\ pc = "writing"
    /\ idx < Len(tlv)
    /\ LET chunk == Slice(tlv, idx, idx + 4)
       IN  writes' = IF Len(chunk) # 4 THEN writes
                     ELSE Append(writes, WriteAPDU(page, chunk, FALSE))
    /\ pc' = "failed"
    /\ UNCHANGED <<uri, ndef, tlv, idx, page, decoded, uvars, avars, mvars, tvars, kvars, nvars>>

WriteNDEFReturn ==
    /\ pc = "writing"
    /\ idx >= Len(tlv)
    /\ pc' = "done"
    /\ UNCHANGED <<uri, ndef, tlv, idx, page, writes, decoded, uvars, avars, mvars, tvars, kvars, nvars>>

WriteNext == WriteNDEFBegin \/ WritePageOk \/ WritePageFail \/ WriteNDEFReturn

Next == BuildURIRecord \/ WriteNext

Spec == Init /\ [][Next]_vars

(***************************************************************************)
(* writeNDEFToType2 on its own, for arbitrary NDEF messages.               *)
(***************************************************************************)
InitTLVEncode ==
    /\ ndef \in Messages
    /\ uri = <<>> /\ tlv = <<>> /\ idx = 0 /\ page = 0 /\ writes = <<>>
    /\ pc = "built" /\ decoded = NoDecoded
    /\ URIIdle /\ AnalyzeIdle /\ MessageIdle /\ TagIdle /\ LockIdle /\ RestIdle

SpecTLVEncode == InitTLVEncode /\ [][WriteNext]_vars

(***************************************************************************)
(* Round trip: buildURIRecord, then the reader's decoders on its output.   *)
(***************************************************************************)
DecodeBack ==
    /\ pc = "built"
    /\ decoded' = [uri |-> parseURIPayload(SliceFrom(ndef, 4)),
                   msg |-> parseNDEFMessage(ndef)]
    /\ pc' = "decoded"
    /\ UNCHANGED <<uri, ndef, tlv, idx, page, writes, uvars, avars, mvars, tvars, kvars, nvars>>

NextRoundTrip == BuildURIRecord \/ DecodeBack

SpecRoundTrip == Init /\ [][NextRoundTrip]_vars

(***************************************************************************)
(* parseURIPayload on arbitrary payloads.                                  *)
(***************************************************************************)
InitURIDecode ==
    /\ payload \in Payloads
    /\ uriOut = NoURI
    /\ WriterIdle /\ AnalyzeIdle /\ MessageIdle /\ TagIdle /\ LockIdle /\ RestIdle

ParseURIPayloadCall ==
    /\ uriOut.err = "notcalled"
    /\ uriOut' = parseURIPayload(payload)
    /\ UNCHANGED <<payload, wvars, avars, mvars, tvars, kvars, nvars>>

SpecURIDecode == InitURIDecode /\ [][ParseURIPayloadCall]_vars

(***************************************************************************)
(* analyzeNDEFStructure: one action per loop iteration, by TLV type.       *)
(***************************************************************************)
Entry(kind, at, length, value, err) ==
    [kind |-> kind, at |-> at, length |-> length, value |-> value, err |-> err]

InitTLVDecode ==
    /\ data \in Buffers
    /\ offset = 0 /\ foundNDEF = FALSE /\ entries = <<>> /\ parsed = <<>>
    /\ touched = {} /\ apc = "start"
    /\ WriterIdle /\ URIIdle /\ MessageIdle /\ TagIdle /\ LockIdle /\ RestIdle

AnalyzeBegin ==
    /\ apc = "start"
    /\ apc' = IF Len(data) = 0 THEN "nodata" ELSE "scan"
    /\ UNCHANGED <<data, offset, foundNDEF, entries, parsed, touched, wvars, uvars, mvars, tvars, kvars, nvars>>

InLoop == apc = "scan" /\ offset < Len(data)

ScanNull ==
    /\ InLoop
    /\ At(data, offset) = 0
    /\ entries' = Append(entries, Entry("Null", offset, 0, <<>>, "none"))
    /\ touched' = touched \cup {offset}
    /\ offset' = offset + 1
    /\ UNCHANGED <<data, foundNDEF, parsed, apc, wvars, uvars, mvars, tvars, kvars, nvars>>

ScanNDEFNoStop ==
    /\ InLoop
    /\ At(data, offset) = 3
    /\ foundNDEF' = TRUE
    /\ IF offset + 1 >= Len(data)
       THEN /\ entries' = Append(entries, Entry("NDEF", offset, 0, <<>>, "MissingLength"))
            /\ touched' = touched \cup {offset}
            /\ offset' = offset + 1
            /\ UNCHANGED <<parsed, apc, nvars>>
       ELSE LET length == At(data, offset + 1)
                avail == IF offset + 2 + length > Len(data)
                         THEN SliceFrom(data, offset + 2)
                         ELSE Slice(data, offset + 2, offset + 2 + length)
            IN  /\ entries' = Append(entries,
                       Entry("NDEF", offset, length, avail,
                             IF offset + 2 + length > Len(data)
                             THEN "LengthExceeds" ELSE "none"))
                /\ parsed' = IF avail # <<>> THEN Append(parsed, avail) ELSE parsed
                /\ touched' = touched \cup (offset..(offset + 1 + Len(avail)))
                /\ offset' = offset + 2 + length
                /\ UNCHANGED apc
    /\ UNCHANGED <<data, wvars, uvars, mvars, tvars, kvars, nvars>>

ScanNDEF ==
    /\ InLoop
    /\ At(data, offset) = 3
    /\ foundNDEF' = TRUE
    /\ IF offset + 1 >= Len(data)
       THEN /\ entries' = Append(entries, Entry("NDEF", offset, 0, <<>>, "MissingLength"))
            /\ touched' = touched \cup {offset}
            /\ offset' = offset + 1
            /\ UNCHANGED <<parsed, apc, nvars>>
       ELSE LET length == At(data, offset + 1)
                remaining == Len(data) - offset - 2
            IN  IF length = 0
                THEN /\ entries' = Append(entries, Entry("NDEF", offset, 0, <<>>, "none"))
                     /\ touched' = touched \cup {offset, offset + 1}
                     /\ offset' = offset + 2
                     /\ UNCHANGED <<parsed, apc, nvars>>
                ELSE IF offset + 2 + length > Len(data)
                THEN /\ entries' = Append(entries,
                            Entry("NDEF", offset, length,
                                  SliceFrom(data, offset + 2), "LengthExceeds"))
                     /\ parsed' = IF remaining > 0
                                  THEN Append(parsed, Slice(data, offset + 2,
                                                            offset + 2 + remaining))
                                  ELSE parsed
                     /\ touched' = touched \cup (offset..(Len(data) - 1))
                     /\ apc' = "returned"
                     /\ UNCHANGED offset
                ELSE /\ entries' = Append(entries,
                            Entry("NDEF", offset, length,
                                  Slice(data, offset + 2, offset + 2 + length), "none"))
                     /\ parsed' = Append(parsed, Slice(data, offset + 2,
                                                       offset + 2 + length))
                     /\ touched' = touched \cup (offset..(offset + 1 + length))
                     /\ offset' = offset + 2 + length
                     /\ UNCHANGED apc
    /\ UNCHANGED <<data, wvars, uvars, mvars, tvars, kvars, nvars>>

ScanTerminatorContinue ==
    /\ InLoop
    /\ At(data, offset) = 254
    /\ entries' = Append(entries, Entry("Terminator", offset, 0, <<>>, "none"))
    /\ touched' = touched \cup {offset}
    /\ offset' = offset + 1
    /\ UNCHANGED <<data, foundNDEF, parsed, apc, wvars, uvars, mvars, tvars, kvars, nvars>>

ScanTerminator ==
    /\ InLoop
    /\ At(data, offset) = 254
    /\ entries' = Append(entries, Entry("Terminator", offset, 0, <<>>, "none"))
    /\ touched' = touched \cup {offset}
    /\ apc' = "returned"
    /\ UNCHANGED <<data, offset, foundNDEF, parsed, wvars, uvars, mvars, tvars, kvars, nvars>>

ScanProprietary ==
    /\ InLoop
    /\ At(data, offset) \in (1..253) \ {3}
    /\ IF offset + 1 < Len(data)
       THEN /\ entries' = Append(entries,
                   Entry("Proprietary", offset, At(data, offset + 1), <<>>, "none"))
            /\ touched' = touched \cup {offset, offset + 1}
            /\ offset' = offset + 2 + At(data, offset + 1)
       ELSE /\ entries' = Append(entries, Entry("Proprietary", offset, 0, <<>>, "none"))
            /\ touched' = touched \cup {offset}
            /\ offset' = offset + 1
    /\ UNCHANGED <<data, foundNDEF, parsed, apc, wvars, uvars, mvars, tvars, kvars, nvars>>

ScanInvalidStuck ==
    /\ InLoop
    /\ At(data, offset) = 255
    /\ entries' = Append(entries, Entry("Invalid", offset, 0, <<>>, "none"))
    /\ touched' = touched \cup {offset}
    /\ UNCHANGED <<data, offset, foundNDEF, parsed, apc, wvars, uvars, mvars, tvars, kvars, nvars>>

ScanInvalid ==
    /\ InLoop
    /\ At(data, offset) = 255
    /\ entries' = Append(entries, Entry("Invalid", offset, 0, <<>>, "none"))
    /\ touched' = touched \cup {offset}
    /\ offset' = offset + 1
    /\ UNCHANGED <<data, foundNDEF, parsed, apc, wvars, uvars, mvars, tvars, kvars, nvars>>

ScanEnd ==
    /\ apc = "scan"
    /\ offset >= Len(data)
    /\ apc' = "ended"
    /\ UNCHANGED <<data, offset, foundNDEF, entries, parsed, touched, wvars, uvars, mvars, tvars, kvars, nvars>>

NextTLVDecode ==
    \/ AnalyzeBegin \/ ScanNull \/ ScanNDEF \/ ScanTerminator
    \/ ScanProprietary \/ ScanInvalid \/ ScanEnd

SpecTLVDecode == InitTLVDecode /\ [][NextTLVDecode]_vars

(***************************************************************************)
(* parseTextPayload on its own.                                            *)
(***************************************************************************)
StatusBytes == {0, 1, 2, 3, 5, 63, 64, 65, 66, 127, 128, 130, 192, 194, 255}

\* Short payloads, and long ones around the largest language-code length.
TextPayloads ==
    {<<>>}
    \cup {<<s>> \o b : s \in StatusBytes, b \in SeqsUpTo({101, 110}, MaxTextBody)}
    \cup {<<s>> \o Fill(n) : s \in {63, 127, 255}, n \in 61..65}

InitTextDecode ==
    /\ tpayload \in TextPayloads
    /\ textOut = NoText
    /\ WriterIdle /\ URIIdle /\ AnalyzeIdle /\ MessageIdle /\ TagIdle /\ LockIdle
    /\ MainIdle /\ ReaderIdle
    /\ OtherIdle

ParseTextPayloadCall ==
    /\ textOut.err = "notcalled"
    /\ textOut' = parseTextPayload(tpayload)
    /\ UNCHANGED <<tpayload, wvars, uvars, avars, mvars, tvars, kvars, lvars, rvars, ovars>>

SpecTextDecode == InitTextDecode /\ [][ParseTextPayloadCall]_vars

(***************************************************************************)
(* parseNDEFMessage: one action per loop iteration.                        *)
(***************************************************************************)
\* The bytes of one record with the given header, type, id and payload.
EncodeRec(h, typ, id, pl) ==
    LET sr == (h \div 16) % 2 = 1
        il == (h \div 8) % 2 = 1
    IN  <<h, Len(typ)>>
        \o (IF sr THEN <<Len(pl)>> ELSE <<0, 0, 0, Len(pl)>>)
        \o (IF il THEN <<Len(id)>> ELSE <<>>)
        \o typ \o (IF il THEN id ELSE <<>>) \o pl

RecHeaders == {209, 145, 81, 17, 193, 49}

RecHeadersIL == {25, 89}

RecTypes == {<<>>, <<85>>}

RecPayloads == {<<>>, <<4, 97>>}

RecIds == {<<>>, <<105>>}

SomeRecords ==
    {EncodeRec(h, t, <<>>, pl) : h \in RecHeaders, t \in RecTypes, pl \in RecPayloads}
    \cup {EncodeRec(h, t, i, pl) : h \in RecHeadersIL, t \in RecTypes,
                                   i \in RecIds, pl \in RecPayloads}

Prefixes(s) == {SubSeq(s, 1, k) : k \in 0..Len(s)}

\* [0xD1,0x01,0x0B,0x55,0x04] + "example.com"
ExampleMessage ==
    <<209, 1, 11, 85, 4, 101, 120, 97, 109, 112, 108, 101, 46, 99, 111, 109>>

\* The same message with the payload length that counts all twelve bytes.
ExampleMessage12 == [ExampleMessage EXCEPT ![3] = 12]

MsgAlphabet == {0, 1, 17, 25, 81, 85, 255}

MsgBuffers ==
    UNION {Prefixes(r1 \o r2) : r1 \in SomeRecords, r2 \in SomeRecords}
    \cup SeqsUpTo(MsgAlphabet, MaxMsgBuf)
    \cup Prefixes(ExampleMessage)
    \cup Prefixes(ExampleMessage12)

InitMsgDecode ==
    /\ mdata \in MsgBuffers
    /\ moff = 0 /\ mrecs = <<>> /\ mpc = "start"
    /\ WriterIdle /\ URIIdle /\ AnalyzeIdle /\ TagIdle /\ LockIdle /\ RestIdle

ParseBegin ==
    /\ mpc = "start"
    /\ mpc' = IF Len(mdata) = 0 THEN "empty" ELSE "loop"
    /\ UNCHANGED <<mdata, moff, mrecs, wvars, uvars, avars, tvars, kvars, nvars>>

RecEntry(start, it) == [start |-> start, rec |-> it.rec, err |-> it.err, next |-> it.next]

\* A loop that carries on after a truncated record.
ParseRecordStepResync ==
    /\ mpc = "loop"
    /\ moff < Len(mdata)
    /\ LET it == ParseRecord(mdata, moff)
       IN  /\ mrecs' = Append(mrecs, RecEntry(moff, it))
           /\ moff' = it.next
           /\ mpc' = IF it.stop /\ it.err = "none" THEN "stopped" ELSE "loop"
    /\ UNCHANGED <<mdata, wvars, uvars, avars, tvars, kvars, nvars>>

ParseRecordStep ==
    /\ mpc = "loop"
    /\ moff < Len(mdata)
    /\ LET it == ParseRecord(mdata, moff)
       IN  /\ mrecs' = Append(mrecs, RecEntry(moff, it))
           /\ moff' = it.next
           /\ mpc' = IF it.stop THEN "stopped" ELSE "loop"
    /\ UNCHANGED <<mdata, wvars, uvars, avars, tvars, kvars, nvars>>

ParseExhausted ==
    /\ mpc = "loop"
    /\ moff >= Len(mdata)
    /\ mpc' = "exhausted"
    /\ UNCHANGED <<mdata, moff, mrecs, wvars, uvars, avars, tvars, kvars, nvars>>

NextMsgDecode == ParseBegin \/ ParseRecordStep \/ ParseExhausted

SpecMsgDecode == InitMsgDecode /\ [][NextMsgDecode]_vars

(***************************************************************************)
(* The tag behind the reader: identifyTagType and formatType2Tag.          *)
(***************************************************************************)
\* Page layouts: the low pages, with or without pages 0x2C and 0x86.
Layouts == {0..MemTop, 0..MemTop \cup {44}, 0..MemTop \cup {44, 134}}

Page0s == {<<4, 17, 34, 51>>, <<8, 17, 34, 51>>}

Page2s == {<<b0, b1, l0, l1>> : b0 \in {0, 90}, b1 \in {0, 72}, l0 \in {0, 1}, l1 \in {0, 128}}

TagMemory(pages, p0, p2) ==
    [p \in pages |-> IF p = 0 THEN p0 ELSE IF p = 2 THEN p2 ELSE <<p, p, p, p>>]

Tags == {TagMemory(pages, p0, p2) : pages \in Layouts, p0 \in Page0s, p2 \in Page2s}

\* What one readPage call can return: an error, or the data of a page the
\* tag has; transmit also succeeds on a response that is the status word alone.
ReadOutcomes(p) ==
    {[ok |-> FALSE, data |-> <<>>]}
    \cup (IF p \in DOMAIN mem
          THEN {[ok |-> TRUE, data |-> mem[p]], [ok |-> TRUE, data |-> <<>>]}
          ELSE {})

ReadAPDU(p, r) == [page |-> p, ok |-> r.ok, data |-> r.data]

InitTag ==
    /\ mem \in Tags
    /\ reads = <<>> /\ tagType = "" /\ tpc = "page0"
    /\ fresult = "lock"
    /\ WriterIdle /\ URIIdle /\ AnalyzeIdle /\ MessageIdle /\ LockIdle /\ RestIdle

IdentifyPage0 ==
    /\ tpc = "page0"
    /\ \E r \in ReadOutcomes(0) :
           /\ reads' = Append(reads, ReadAPDU(0, r))
           /\ IF ~r.ok
                 THEN tagType' = "unknown" /\ tpc' = "done"
                 ELSE IF Len(r.data) >= 1
                 THEN IF r.data[1] = 4
                        THEN tagType' = tagType /\ tpc' = "page2C"
                        ELSE tagType' = "Type2-compatible" /\ tpc' = "done"
                 ELSE tagType' = "unknown" /\ tpc' = "done"
    /\ UNCHANGED <<mem, fresult, wvars, uvars, avars, mvars, kvars, nvars>>

\* A probe that is asked again after it failed.
IdentifyPage2CRetry ==
    /\ tpc = "page2C"
    /\ \E r \in ReadOutcomes(44) :
           /\ reads' = Append(reads, ReadAPDU(44, r))
           /\ IF ~r.ok /\ Len(reads) >= 2
                 THEN tagType' = "NTAG213" /\ tpc' = "done"
                 ELSE IF ~r.ok THEN tagType' = tagType /\ tpc' = "page2C"
                 ELSE tagType' = tagType /\ tpc' = "page86"
    /\ UNCHANGED <<mem, fresult, wvars, uvars, avars, mvars, kvars, nvars>>

IdentifyPage2C ==
    /\ tpc = "page2C"
    /\ \E r \in ReadOutcomes(44) :
           /\ reads' = Append(reads, ReadAPDU(44, r))
           /\ IF ~r.ok
                 THEN tagType' = "NTAG213" /\ tpc' = "done"
                 ELSE tagType' = tagType /\ tpc' = "page86"
    /\ UNCHANGED <<mem, fresult, wvars, uvars, avars, mvars, kvars, nvars>>

\* The last probe with its two answers exchanged.
IdentifyPage86Swapped ==
    /\ tpc = "page86"
    /\ \E r \in ReadOutcomes(134) :
           /\ reads' = Append(reads, ReadAPDU(134, r))
           /\ tagType' = IF ~r.ok THEN "NTAG216" ELSE "NTAG215"
           /\ tpc' = "done"
    /\ UNCHANGED <<mem, fresult, wvars, uvars, avars, mvars, kvars, nvars>>

IdentifyPage86 ==
    /\ tpc = "page86"
    /\ \E r \in ReadOutcomes(134) :
           /\ reads' = Append(reads, ReadAPDU(134, r))
           /\ tagType' = IF ~r.ok THEN "NTAG215" ELSE "NTAG216"
           /\ tpc' = "done"
    /\ UNCHANGED <<mem, fresult, wvars, uvars, avars, mvars, kvars, nvars>>

\* One writePage of the formatter: the APDU goes out, and the tag takes the
\* four bytes when the write succeeds.
FormatWrite(step, pg, bytes, then, failed) ==
    /\ fresult = step
    /\ pg \in DOMAIN mem
    /\ \E ok \in BOOLEAN :
           /\ writes' = Append(writes, WriteAPDU(pg, bytes, ok))
           /\ mem' = IF ok THEN [mem EXCEPT ![pg] = bytes] ELSE mem
           /\ fresult' = IF ok THEN then ELSE failed
    /\ UNCHANGED <<uri, ndef, tlv, idx, page, pc, decoded, reads, tagType, tpc,
                   uvars, avars, mvars, kvars, nvars>>

FormatLockBytes ==
    FormatWrite("lock", 2, <<0, 0, 0, 0>>, "cc", "errLock")

\* A formatter that goes on after a failed write.
FormatCCIgnoreError ==
    FormatWrite("cc", 3, <<225, 16, 63, 0>>, "ndef", "ndef")

FormatCC ==
    FormatWrite("cc", 3, <<225, 16, 63, 0>>, "ndef", "errCC")

FormatNDEFArea ==
    FormatWrite("ndef", 4, <<0, 0, 0, 254>>, "ok", "errNDEF")

NextTag ==
    \/ IdentifyPage0
    \/ IdentifyPage2C
    \/ IdentifyPage86
    \/ FormatLockBytes
    \/ FormatCC
    \/ FormatNDEFArea

SpecTag == InitTag /\ [][NextTag]_vars

(***************************************************************************)
(* readFullTag from its call of analyzeLockBytes on: the static lock       *)
(* decode, the dynamic lock and configuration reads, then the listing of   *)
(* the configuration pages.                                                *)
(***************************************************************************)
TagTypes == {"unknown", "Type2-compatible", "NTAG213", "NTAG215", "NTAG216"}

IsNTAG(t) == t \in {"NTAG213", "NTAG215", "NTAG216"}

\* readFullTag's maxPage.
MaxPageOf(t) ==
    CASE t = "NTAG213" -> 44
      [] t = "NTAG215" -> 134
      [] t = "NTAG216" -> 231
      [] OTHER -> 16

\* analyzeLockBytes' dynamicLockPage.
DynamicLockPageOf(t) ==
    IF t = "NTAG215" THEN 130 ELSE IF t = "NTAG216" THEN 226 ELSE 42

\* readFullTag's configStart.
ConfigStartOf(t) ==
    IF t = "NTAG215" THEN 131 ELSE IF t = "NTAG216" THEN 227 ELSE 41

ShiftRight(b, i) == b \div (2 ^ i)

\* A decode that shifts lock1 by i instead of i-8.
LockBitNoRebase(lock0, lock1, i) ==
    IF i < 8 THEN ShiftRight(lock0, i) % 2 = 1
             ELSE ShiftRight(lock1, i) % 2 = 1

LockBit(lock0, lock1, i) ==
    IF i < 8 THEN ShiftRight(lock0, i) % 2 = 1
             ELSE ShiftRight(lock1, i - 8) % 2 = 1

RECURSIVE LockLoop(_, _, _, _)
LockLoop(lock0, lock1, i, acc) ==
    IF i >= 16 THEN acc
    ELSE LockLoop(lock0, lock1, i + 1,
                  IF LockBit(lock0, lock1, i) THEN Append(acc, 3 + i) ELSE acc)

StaticLockedPages(lock0, lock1) == LockLoop(lock0, lock1, 0, <<>>)

Label(by, label, pg, bytes) == [by |-> by, label |-> label, page |-> pg, data |-> bytes]

LockTagMemory(lock0, lock1, auth0) ==
    [p \in (0..MemTop) \cup (41..44) \cup (130..134) \cup (226..230) |->
        IF p = 2 THEN <<0, 0, lock0, lock1>> ELSE <<p, p, p, auth0>>]

FewLockBytes == {0, 1, 128, 255}

Auth0s == {4, 255}

InitLock ==
    /\ \/ /\ tagType = "Type2-compatible"
          /\ \E lock0 \in Byte, lock1 \in Byte : mem = LockTagMemory(lock0, lock1, 255)
       \/ /\ tagType \in TagTypes
          /\ \E lock0 \in FewLockBytes, lock1 \in FewLockBytes, auth0 \in Auth0s :
                 mem = LockTagMemory(lock0, lock1, auth0)
    /\ reads = <<>> /\ tpc = "done" /\ fresult = "idle"
    /\ kpc = "static" /\ lockedPages = <<>> /\ labels = <<>>
    /\ WriterIdle /\ URIIdle /\ AnalyzeIdle /\ MessageIdle /\ RestIdle

AnalyzeStaticLock ==
    /\ kpc = "static"
    /\ \E r \in ReadOutcomes(2) :
           /\ reads' = Append(reads, ReadAPDU(2, r))
           /\ IF r.ok /\ Len(r.data) = 4
                 THEN /\ lockedPages' = StaticLockedPages(r.data[3], r.data[4])
                      /\ labels' = Append(labels, Label("analyzeLockBytes", "Static Lock", 2, r.data))
                 ELSE UNCHANGED <<lockedPages, labels, nvars>>
    /\ kpc' = IF IsNTAG(tagType) THEN "dynamic" ELSE "done"
    /\ UNCHANGED <<mem, tagType, tpc, fresult, wvars, uvars, avars, mvars, nvars>>

AnalyzeDynamicLock ==
    /\ kpc = "dynamic"
    /\ LET pg == DynamicLockPageOf(tagType)
       IN  \E r \in ReadOutcomes(pg) :
               /\ reads' = Append(reads, ReadAPDU(pg, r))
               /\ labels' = IF r.ok
                               THEN Append(labels, Label("analyzeLockBytes", "Dynamic Lock", pg, r.data))
                               ELSE labels
    /\ kpc' = "config"
    /\ UNCHANGED <<mem, tagType, tpc, fresult, lockedPages, wvars, uvars, avars, mvars, nvars>>

AnalyzeConfiguration ==
    /\ kpc = "config"
    /\ LET pg == ToByte(DynamicLockPageOf(tagType) + 1)
       IN  \E r \in ReadOutcomes(pg) :
               /\ reads' = Append(reads, ReadAPDU(pg, r))
               /\ labels' = IF r.ok
                               THEN Append(labels, Label("analyzeLockBytes", "Configuration", pg, r.data))
                               ELSE labels
    /\ kpc' = "list0"
    /\ UNCHANGED <<mem, tagType, tpc, fresult, lockedPages, wvars, uvars, avars, mvars, nvars>>

ListPosition == <<"list0", "list1", "list2", "list3", "done">>

ListLabel == <<"", "Dynamic Lock", "Configuration", "Password">>

\* One iteration of the configuration-page loop of readFullTag.
ListConfigPage ==
    \E i \in 0..3 :
        /\ kpc = ListPosition[i + 1]
        /\ LET pg == ToByte(ConfigStartOf(tagType) + i)
           IN  IF pg <= MaxPageOf(tagType)
                 THEN \E r \in ReadOutcomes(pg) :
                          /\ reads' = Append(reads, ReadAPDU(pg, r))
                          /\ labels' = IF r.ok
                                          THEN Append(labels, Label("readFullTag", ListLabel[i + 1], pg, r.data))
                                          ELSE labels
                 ELSE UNCHANGED <<reads, labels, nvars>>
        /\ kpc' = ListPosition[i + 2]
        /\ UNCHANGED <<mem, tagType, tpc, fresult, lockedPages, wvars, uvars, avars, mvars, nvars>>

NextLock ==
    \/ AnalyzeStaticLock
    \/ AnalyzeDynamicLock
    \/ AnalyzeConfiguration
    \/ ListConfigPage

SpecLock == InitLock /\ [][NextLock]_vars

(***************************************************************************)
(* nfcwriter main: the loop over card placements.  The card is put on and  *)
(* taken off the reader by its holder at any time.                         *)
(***************************************************************************)
\* main's connect loop: for i := 0; i < 10; i++.
ConnectTries == 10

HexDigits == <<48, 49, 50, 51, 52, 53, 54, 55, 56, 57, 97, 98, 99, 100, 101, 102>>

RECURSIVE EncodeToString(_)
EncodeToString(bytes) ==
    IF bytes = <<>> THEN <<>>
    ELSE <<HexDigits[(bytes[1] \div 16) + 1], HexDigits[(bytes[1] % 16) + 1]>>
         \o EncodeToString(Tail(bytes))

\* Hex left in lower case.
ToUpperSkipped(s) ==
    s

ToUpper(s) ==
    [k \in 1..Len(s) |-> IF s[k] \in 97..122 THEN s[k] - 32 ELSE s[k]]

\* "https://dnd.qrand.me/r/"
URLBase == HTTPS \o <<100, 110, 100, 46, 113, 114, 97, 110, 100, 46, 109, 101, 47, 114, 47>>

FullURL(uid) == URLBase \o ToUpper(EncodeToString(uid))

Event(op, pg, ok) ==
    [op |-> op, page |-> pg, ok |-> ok, placement |-> placement, present |-> present]

\* A transmit to the card: it can succeed only while the card is there.
CardAnswers == IF present THEN BOOLEAN ELSE {FALSE}

MainTag == [p \in 0..16 |-> <<p, p, p, p>>]

InitMain ==
    /\ present = FALSE /\ placement = 0 /\ cardUID \in {<<4, 171, 205, 239>>}
    /\ cycles = 0 /\ wpc = "waitPresent" /\ tries = 0 /\ connected = FALSE
    /\ polled = FALSE /\ uidv = <<>> /\ events = <<>>
    /\ mem = MainTag /\ reads = <<>> /\ tagType = "" /\ tpc = "idle" /\ fresult = "idle"
    /\ WriterIdle /\ URIIdle /\ AnalyzeIdle /\ MessageIdle /\ LockIdle /\ TextIdle
    /\ ReaderIdle
    /\ OtherIdle

CardPlace ==
    /\ ~present
    /\ placement < MaxPlacements
    /\ present' = TRUE
    /\ placement' = placement + 1
    /\ UNCHANGED <<cardUID, cycles, wpc, tries, connected, polled, uidv, events,
                   wvars, uvars, avars, mvars, tvars, kvars, xvars, rvars, ovars>>

CardRemove ==
    /\ present
    /\ present' = FALSE
    /\ UNCHANGED <<placement, cardUID, cycles, wpc, tries, connected, polled, uidv, events,
                   wvars, uvars, avars, mvars, tvars, kvars, xvars, rvars, ovars>>

\* waitForCardPresent returns on the poll that reports a card; a failed
\* GetStatusChange leaves EventState as it was, which is without a card.
MainWaitPresent ==
    /\ wpc = "waitPresent"
    /\ cycles < MaxCycles
    /\ present
    /\ wpc' = "connect"
    /\ tries' = 0
    /\ cycles' = cycles + 1
    /\ UNCHANGED <<present, placement, cardUID, connected, polled, uidv, events,
                   wvars, uvars, avars, mvars, tvars, kvars, xvars, rvars, ovars>>

MainConnect ==
    /\ wpc = "connect"
    /\ tries < ConnectTries
    /\ \E ok \in CardAnswers :
           IF ok
             THEN /\ connected' = TRUE
                  /\ wpc' = "getUID"
                  /\ events' = Append(events, Event("connect", 0, TRUE))
                  /\ UNCHANGED <<tries, polled>>
             ELSE /\ tries' = tries + 1
                  /\ IF tries + 1 >= ConnectTries
                        THEN /\ wpc' = "waitRemoval"
                             /\ polled' = FALSE
                             /\ events' = Append(events, Event("connect", 0, FALSE))
                        ELSE UNCHANGED <<wpc, polled, events>>
                  /\ UNCHANGED connected
    /\ UNCHANGED <<present, placement, cardUID, cycles, uidv,
                   wvars, uvars, avars, mvars, tvars, kvars, xvars, rvars, ovars>>

MainGetUID ==
    /\ wpc = "getUID"
    /\ \E ok \in CardAnswers :
           /\ events' = Append(events, Event("getUID", 0, ok))
           /\ uidv' = IF ok THEN cardUID ELSE uidv
           /\ wpc' = IF ok THEN "format" ELSE "disconnect"
           /\ fresult' = IF ok THEN "lock" ELSE fresult
    /\ UNCHANGED <<present, placement, cardUID, cycles, tries, connected, polled,
                   mem, reads, tagType, tpc, wvars, uvars, avars, mvars, kvars, xvars, rvars, ovars>>

\* One writePage of formatType2Tag inside main.
MainFormatWrite(step, pg, bytes, then, failed) ==
    /\ wpc = "format"
    /\ fresult = step
    /\ \E ok \in CardAnswers :
           /\ writes' = Append(writes, WriteAPDU(pg, bytes, ok))
           /\ events' = Append(events, Event("format", pg, ok))
           /\ mem' = IF ok THEN [mem EXCEPT ![pg] = bytes] ELSE mem
           /\ fresult' = IF ok THEN then ELSE failed
    /\ UNCHANGED <<present, placement, cardUID, cycles, wpc, tries, connected, polled, uidv,
                   uri, ndef, tlv, idx, page, pc, decoded, reads, tagType, tpc,
                   uvars, avars, mvars, kvars, xvars, rvars, ovars>>

MainFormatLockBytes ==
    MainFormatWrite("lock", 2, <<0, 0, 0, 0>>, "cc", "errLock")

MainFormatCC ==
    MainFormatWrite("cc", 3, <<225, 16, 63, 0>>, "ndef", "errCC")

MainFormatNDEFArea ==
    MainFormatWrite("ndef", 4, <<0, 0, 0, 254>>, "ok", "errNDEF")

\* formatType2Tag has returned: on an error main gives up, otherwise it
\* builds the URL record and enters writeNDEFToType2.
MainAfterFormat ==
    /\ wpc = "format"
    /\ fresult \in {"ok", "errLock", "errCC", "errNDEF"}
    /\ IF fresult = "ok"
         THEN LET msg == buildURIRecord(FullURL(uidv))
              IN  /\ uri' = FullURL(uidv)
                  /\ ndef' = msg
                  /\ IF TooLarge(msg)
                        THEN /\ wpc' = "disconnect"
                             /\ events' = Append(events, Event("ndef", 0, FALSE))
                             /\ UNCHANGED <<tlv, idx, page>>
                        ELSE /\ tlv' = PaddedTLV(msg)
                             /\ idx' = 0
                             /\ page' = 4
                             /\ wpc' = "writing"
                             /\ UNCHANGED events
         ELSE /\ wpc' = "disconnect"
              /\ UNCHANGED <<uri, ndef, tlv, idx, page, events>>
    /\ fresult' = "idle"
    /\ UNCHANGED <<present, placement, cardUID, cycles, tries, connected, polled, uidv,
                   writes, pc, decoded, mem, reads, tagType, tpc,
                   uvars, avars, mvars, kvars, xvars, rvars, ovars>>

\* One iteration of the page loop of writeNDEFToType2 inside main.
MainWritePage ==
    /\ wpc = "writing"
    /\ idx < Len(tlv)
    /\ LET chunk == Slice(tlv, idx, idx + 4)
       IN  \E ok \in CardAnswers :
               /\ writes' = Append(writes, WriteAPDU(page, chunk, ok))
               /\ events' = Append(events, Event("ndef", page, ok))
               /\ mem' = IF ok /\ page \in DOMAIN mem THEN [mem EXCEPT ![page] = chunk] ELSE mem
               /\ IF ok
                     THEN page' = ToByte(page + 1) /\ idx' = idx + 4 /\ wpc' = wpc
                     ELSE UNCHANGED <<page, idx>> /\ wpc' = "disconnect"
    /\ UNCHANGED <<present, placement, cardUID, cycles, tries, connected, polled, uidv,
                   uri, ndef, tlv, pc, decoded, reads, tagType, tpc, fresult,
                   uvars, avars, mvars, kvars, xvars, rvars, ovars>>

MainWriteDone ==
    /\ wpc = "writing"
    /\ idx >= Len(tlv)
    /\ wpc' = "disconnect"
    /\ events' = Append(events, Event("wrote", 0, TRUE))
    /\ UNCHANGED <<present, placement, cardUID, cycles, tries, connected, polled, uidv,
                   wvars, uvars, avars, mvars, tvars, kvars, xvars, rvars, ovars>>

\* The deferred card.Disconnect, then main enters waitForCardRemoval.
MainDisconnect ==
    /\ wpc = "disconnect"
    /\ connected' = FALSE
    /\ polled' = FALSE
    /\ events' = Append(events, Event("disconnect", 0, TRUE))
    /\ wpc' = "waitRemoval"
    /\ UNCHANGED <<present, placement, cardUID, cycles, tries, uidv,
                   wvars, uvars, avars, mvars, tvars, kvars, xvars, rvars, ovars>>

\* A waitForCardRemoval that looks at EventState only after a poll that
\* succeeded.
MainWaitRemovalChecked ==
    /\ wpc = "waitRemoval"
    /\ \E ok \in BOOLEAN :
           IF ok /\ ~present
             THEN /\ wpc' = "waitPresent"
                  /\ events' = Append(events, Event("removed", 0, ok))
                  /\ UNCHANGED polled
             ELSE /\ ok /\ ~polled
                  /\ polled' = TRUE
                  /\ UNCHANGED <<wpc, events>>
    /\ UNCHANGED <<present, placement, cardUID, cycles, tries, connected, uidv,
                   wvars, uvars, avars, mvars, tvars, kvars, xvars, rvars, ovars>>

\* One poll of waitForCardRemoval.  The error of GetStatusChange is dropped:
\* after a failed poll EventState is what it was, and that is "no card"
\* until a poll has succeeded.
MainWaitRemoval ==
    /\ wpc = "waitRemoval"
    /\ \E ok \in BOOLEAN :
           LET st == IF ok THEN present ELSE polled
           IN  IF ~st
                 THEN /\ wpc' = "waitPresent"
                      /\ events' = Append(events, Event("removed", 0, ok))
                      /\ UNCHANGED polled
                 ELSE /\ ok /\ ~polled
                      /\ polled' = TRUE
                      /\ UNCHANGED <<wpc, events>>
    /\ UNCHANGED <<present, placement, cardUID, cycles, tries, connected, uidv,
                   wvars, uvars, avars, mvars, tvars, kvars, xvars, rvars, ovars>>

NextMain ==
    \/ CardPlace
    \/ CardRemove
    \/ MainWaitPresent
    \/ MainConnect
    \/ MainGetUID
    \/ MainFormatLockBytes
    \/ MainFormatCC
    \/ MainFormatNDEFArea
    \/ MainAfterFormat
    \/ MainWritePage
    \/ MainWriteDone
    \/ MainDisconnect
    \/ MainWaitRemoval

SpecMain == InitMain /\ [][NextMain]_vars

(***************************************************************************)
(* readFullTag: the data page loop from page 4 and the hand-over to        *)
(* analyzeNDEFStructure.                                                   *)
(***************************************************************************)
\* The bytes of the pages from p on that the tag has, at most n pages.
RECURSIVE PagesFrom(_, _)
PagesFrom(p, n) ==
    IF n = 0 \/ p \notin DOMAIN mem THEN <<>> ELSE mem[p] \o PagesFrom(p + 1, n - 1)

\* What one pass through the loop body can get for a page: readPage's four
\* bytes; or, readPage having failed, what readPageAlternative returns: the
\* four bytes of a second try or of a 16-byte read, fewer than four bytes,
\* or the whole answer of the read without a length; or no data at all.
PageResults(p) ==
    IF p \notin DOMAIN mem THEN {[kind |-> "fail", data |-> <<>>]}
    ELSE {[kind |-> "ok", data |-> mem[p]]}
         \cup (IF faults < MaxFaults
               THEN {[kind |-> "alt", data |-> mem[p]],
                     [kind |-> "short", data |-> SubSeq(mem[p], 1, 2)],
                     [kind |-> "long", data |-> PagesFrom(p, 4)],
                     [kind |-> "empty", data |-> <<>>],
                     [kind |-> "fail", data |-> <<>>]}
               ELSE {})

\* The tag addresses of n bytes read from page p on.
Addresses(p, n) == [k \in 1..n |-> [page |-> p + ((k - 1) \div 4), byte |-> (k - 1) % 4]]

ReaderStart ==
    /\ spc = "idle"
    /\ wpc \in {"idle", "waitRemoval"}
    /\ spc' = "scan"
    /\ spage' = 4
    /\ allNDEFData' = <<>> /\ origin' = <<>> /\ consecutiveErrors' = 0 /\ faults' = 0
    /\ UNCHANGED <<wvars, uvars, avars, mvars, tvars, kvars, xvars, lvars, ovars>>

\* A loop that never leaves early on a byte 0xFE.
ScanPageNoEarlyExit ==
    /\ spc = "scan"
    /\ spage <= MaxPageOf(tagType)
    /\ \E r \in PageResults(spage) :
           /\ faults' = IF r.kind = "ok" THEN faults ELSE faults + 1
           /\ IF r.kind = "fail"
                 THEN /\ consecutiveErrors' = consecutiveErrors + 1
                      /\ UNCHANGED <<allNDEFData, origin>>
                      /\ IF consecutiveErrors + 1 >= 3 \/ spage > MaxPageOf(tagType) - 5
                            THEN spc' = "analyze" /\ spage' = spage
                            ELSE spc' = spc /\ spage' = spage + 1
                 ELSE /\ consecutiveErrors' = 0
                      /\ allNDEFData' = allNDEFData \o r.data
                      /\ origin' = origin \o Addresses(spage, Len(r.data))
                      /\ spc' = spc /\ spage' = spage + 1
    /\ UNCHANGED <<wvars, uvars, avars, mvars, tvars, kvars, xvars, lvars, ovars>>

\* One iteration of the data page loop.
ScanPage ==
    /\ spc = "scan"
    /\ spage <= MaxPageOf(tagType)
    /\ \E r \in PageResults(spage) :
           /\ faults' = IF r.kind = "ok" THEN faults ELSE faults + 1
           /\ IF r.kind = "fail"
                 THEN /\ consecutiveErrors' = consecutiveErrors + 1
                      /\ UNCHANGED <<allNDEFData, origin>>
                      /\ IF consecutiveErrors + 1 >= 3 \/ spage > MaxPageOf(tagType) - 5
                            THEN spc' = "analyze" /\ spage' = spage
                            ELSE spc' = spc /\ spage' = spage + 1
                 ELSE /\ consecutiveErrors' = 0
                      /\ allNDEFData' = allNDEFData \o r.data
                      /\ origin' = origin \o Addresses(spage, Len(r.data))
                      /\ IF \E k \in 1..Len(r.data) : r.data[k] = 254
                            THEN spc' = "analyze" /\ spage' = spage
                            ELSE spc' = spc /\ spage' = spage + 1
    /\ UNCHANGED <<wvars, uvars, avars, mvars, tvars, kvars, xvars, lvars, ovars>>

ScanLoopExit ==
    /\ spc = "scan"
    /\ spage > MaxPageOf(tagType)
    /\ spc' = "analyze"
    /\ UNCHANGED <<allNDEFData, origin, spage, consecutiveErrors, faults,
                   wvars, uvars, avars, mvars, tvars, kvars, xvars, lvars, ovars>>

\* The label analyzeNDEF: the call of analyzeNDEFStructure(allNDEFData, 4),
\* or the search of the whole memory when nothing was collected.
ScanAnalyze ==
    /\ spc = "analyze"
    /\ IF Len(allNDEFData) > 0
         THEN /\ data' = allNDEFData
              /\ offset' = 0 /\ foundNDEF' = FALSE /\ entries' = <<>> /\ parsed' = <<>>
              /\ touched' = {} /\ apc' = "start"
              /\ spc' = "analysis"
         ELSE /\ spc' = "fallback"
              /\ UNCHANGED avars
    /\ UNCHANGED <<allNDEFData, origin, spage, consecutiveErrors, faults,
                   wvars, uvars, mvars, tvars, kvars, xvars, lvars, ovars>>

\* Tags for the reader pass: pages 0-3 as a formatted tag has them, the data
\* area (pages 4..16) filled from a byte sequence.
AreaPages == 13

RECURSIVE Repeat(_, _)
Repeat(b, n) == IF n <= 0 THEN <<>> ELSE <<b>> \o Repeat(b, n - 1)

TagWithArea(bytes, filler) ==
    LET area == bytes \o Repeat(filler, 4 * AreaPages - Len(bytes))
    IN  [p \in 0..(3 + AreaPages) |->
            IF p = 0 THEN <<8, 17, 34, 51>>
            ELSE IF p = 1 THEN <<68, 85, 102, 119>>
            ELSE IF p = 2 THEN <<136, 72, 0, 0>>
            ELSE IF p = 3 THEN <<225, 16, 63, 0>>
            ELSE SubSeq(area, 4 * (p - 4) + 1, 4 * (p - 4) + 4)]

\* One short URI record whose payload bytes may be 0xFE.
AreaRecords == {<<209, 1, 1 + Len(b), 85, 4>> \o b : b \in [1..3 -> {97, 254}]}

AreaLeads == {<<>>, <<0>>, <<0, 0, 0>>}

NDEFAreas == {l \o <<3, Len(r)>> \o r \o <<254>> : l \in AreaLeads, r \in AreaRecords}

OtherAreas == {<<>>, <<1, 2, 170, 187, 255, 0, 254>>, <<3, 0, 254>>, <<3, 60, 209, 1, 56, 85, 4>>}

ScanTags ==
    {TagWithArea(a, f) : a \in NDEFAreas, f \in {0, 17}}
    \cup {TagWithArea(a, f) : a \in OtherAreas, f \in {0, 17}}

InitScan ==
    /\ mem \in ScanTags
    /\ reads = <<>> /\ tagType = "Type2-compatible" /\ tpc = "done" /\ fresult = "idle"
    /\ ReaderIdle
    /\ WriterIdle /\ URIIdle /\ AnalyzeIdle /\ MessageIdle /\ LockIdle /\ TextIdle
    /\ MainIdle
    /\ OtherIdle

NextScan ==
    \/ ReaderStart
    \/ ScanPage
    \/ ScanLoopExit
    \/ ScanAnalyze
    \/ AnalyzeBegin
    \/ ScanNull
    \/ ScanNDEF
    \/ ScanTerminator
    \/ ScanProprietary
    \/ ScanInvalid
    \/ ScanEnd

SpecScan == InitScan /\ [][NextScan]_vars

(***************************************************************************)
(* One tag written by nfcwriter and then read by the reader: main from its *)
(* successful Connect on, then readFullTag's data page loop and analysis.  *)
(***************************************************************************)
UIDs == {<<>>, <<8, 171, 205, 239>>, <<8, 26, 254, 60, 77, 94, 111>>}

InitWriteRead ==
    /\ mem \in ScanTags
    /\ cardUID \in UIDs
    /\ present = TRUE /\ placement = 1 /\ cycles = 1 /\ wpc = "getUID" /\ tries = 0
    /\ connected = TRUE /\ polled = FALSE /\ uidv = <<>>
    /\ events = <<[op |-> "connect", page |-> 0, ok |-> TRUE, placement |-> 1, present |-> TRUE]>>
    /\ reads = <<>> /\ tagType = "Type2-compatible" /\ tpc = "done" /\ fresult = "idle"
    /\ ReaderIdle
    /\ WriterIdle /\ URIIdle /\ AnalyzeIdle /\ MessageIdle /\ LockIdle /\ TextIdle
    /\ OtherIdle

NextWriteRead ==
    \/ MainGetUID
    \/ MainFormatLockBytes
    \/ MainFormatCC
    \/ MainFormatNDEFArea
    \/ MainAfterFormat
    \/ MainWritePage
    \/ MainWriteDone
    \/ MainDisconnect
    \/ ReaderStart
    \/ ScanPage
    \/ ScanLoopExit
    \/ ScanAnalyze
    \/ AnalyzeBegin
    \/ ScanNull
    \/ ScanNDEF
    \/ ScanTerminator
    \/ ScanProprietary
    \/ ScanInvalid
    \/ ScanEnd

SpecWriteRead == InitWriteRead /\ [][NextWriteRead]_vars

(***************************************************************************)
(* uid service: NFCService.formatUID.  A uint32 is kept as its two 16-bit  *)
(* halves; strings are sequences of character codes.                       *)
(***************************************************************************)
\* The loop of the "hex-reversed" case: reversed[i] = uid[j].
Reversed(uid) == [i \in 1..Len(uid) |-> uid[Len(uid) + 1 - i]]

\* A value that takes the first byte as the least significant one.
UIDValueLittleEndian(uid) ==
    LET b(k) == IF k <= Len(uid) THEN uid[k] ELSE 0
    IN  [hi |-> b(4) * 256 + b(3), lo |-> b(2) * 256 + b(1)]

\* val |= uint32(b) << (8 * (len(uid) - 1 - i)), for len(uid) <= 4.
UIDValue(uid) ==
    LET b(k) == IF k > 4 - Len(uid) THEN uid[k - (4 - Len(uid))] ELSE 0
    IN  [hi |-> b(1) * 256 + b(2), lo |-> b(3) * 256 + b(4)]

\* fmt.Sprintf("%d", val).
RECURSIVE Decimal(_)
Decimal(v) ==
    LET t == (v.hi % 10) * 65536 + v.lo
        q == [hi |-> v.hi \div 10, lo |-> t \div 10]
        digit == <<48 + (t % 10)>>
    IN  IF q.hi = 0 /\ q.lo = 0 THEN digit ELSE Decimal(q) \o digit

formatUID(uid, format) ==
    CASE format = "hex" -> ToUpper(EncodeToString(uid))
      [] format = "hex-reversed" -> ToUpper(EncodeToString(Reversed(uid)))
      [] format = "decimal" ->
            IF Len(uid) <= 4 THEN Decimal(UIDValue(uid))
                             ELSE ToUpper(EncodeToString(uid))
      [] OTHER -> ToUpper(EncodeToString(uid))

UIDFormats == {"hex", "hex-reversed", "decimal", "", "HEX", "dec", "hex-reverse"}

ShortUIDs == SeqsUpTo({0, 1, 10, 127, 128, 171, 255}, 4)

LongUIDs == UNION {[1..n -> {0, 171, 255}] : n \in 5..MaxLongUID} \cup {<<4, 26, 43, 60, 77, 94, 111>>}

InitFormatUID ==
    /\ fuid \in ShortUIDs \cup LongUIDs
    /\ fformat \in UIDFormats
    /\ fout = NotFormatted
    /\ WriterIdle /\ URIIdle /\ AnalyzeIdle /\ MessageIdle /\ TagIdle /\ LockIdle
    /\ TextIdle /\ MainIdle /\ ReaderIdle /\ ServiceIdle

FormatUIDCall ==
    /\ fout = NotFormatted
    /\ fout' = formatUID(fuid, fformat)
    /\ UNCHANGED <<fuid, fformat, wvars, uvars, avars, mvars, tvars, kvars, xvars, lvars, rvars,
                   svars>>

SpecFormatUID == InitFormatUID /\ [][FormatUIDCall]_vars

(***************************************************************************)
(* Properties.                                                             *)
(***************************************************************************)
IsPrefixOf(a, b) == Len(a) <= Len(b) /\ SubSeq(b, 1, Len(a)) = a

RECURSIVE Flatten(_)
Flatten(ws) == IF ws = <<>> THEN <<>> ELSE Head(ws).data \o Flatten(Tail(ws))

\* The bytes of the page writes issued so far, in order.
WrittenBytes == Flatten(writes)

\* The URI with one leading "http://" or "https://" removed, if it has one.
StripOneScheme(u) ==
    IF HasPrefix(u, HTTPS) THEN SliceFrom(u, Len(HTTPS))
    ELSE IF HasPrefix(u, HTTP) THEN SliceFrom(u, Len(HTTP))
    ELSE u

\* C1 as stated: for every URI beginning with "http://" or "https://", decoding
\* the URI payload of buildURIRecord(uri) yields exactly uri.
C1_RoundTripAnyScheme ==
    (pc = "decoded" /\ (HasPrefix(uri, HTTP) \/ HasPrefix(uri, HTTPS)))
        => (decoded.uri.err = "none" /\ decoded.uri.uri = uri)

\* C1 amended: decoding the URI payload of buildURIRecord(uri) yields exactly
\* uri for every URI beginning with "https://"; for a URI beginning with
\* "http://" it yields a URI beginning with "https://", which is not uri.
C1_RoundTripHttps ==
    pc = "decoded" =>
        /\ HasPrefix(uri, HTTPS) =>
               (decoded.uri.err = "none" /\ decoded.uri.uri = uri)
        /\ HasPrefix(uri, HTTP) =>
               (decoded.uri.uri # uri /\ HasPrefix(decoded.uri.uri, HTTPS))

C1_Witness ==
    /\ pc = "decoded"
    /\ HasPrefix(uri, HTTPS)
    /\ Len(uri) > Len(HTTPS)
    /\ decoded.uri.uri = uri

\* C2: parseNDEFMessage on the bytes of buildURIRecord(uri) yields exactly one
\* record with MB=1, ME=1, CF=0, SR=1, IL=0, TNF=1, type "U" and the payload
\* 0x04 followed by all bytes of the stripped URI, consuming the whole buffer
\* without an error.
C2_RecordRoundTrip ==
    pc = "decoded" =>
        /\ Len(decoded.msg.records) = 1
        /\ decoded.msg.err = "none"
        /\ decoded.msg.offset = Len(ndef)
        /\ LET r == decoded.msg.records[1]
           IN  /\ r.mb /\ r.me /\ ~r.cf /\ r.sr /\ ~r.il /\ r.tnf = 1
               /\ r.type = <<85>>
               /\ ~r.partial
               /\ r.payload = <<4>> \o TrimmedURI(uri)

\* C3: for every NDEF message of length n <= 254 the writes go to pages
\* 4, 5, 6, ... in order, each carries 4 bytes, together they carry 0x03, n,
\* the message, 0xFE and the fewest zero bytes that reach a multiple of 4,
\* and a run whose writes all succeed issues exactly ceil((n+3)/4) of them.
ExpectedTLV(m) ==
    LET core == <<3, Len(m)>> \o m \o <<254>>
        fewest == CHOOSE q \in 0..3 : (Len(core) + q) % 4 = 0
    IN  core \o Zeros(fewest)

C3_TLVLayout ==
    Len(ndef) <= 254 =>
        /\ \A k \in 1..Len(writes) :
               /\ writes[k].page = 3 + k
               /\ Len(writes[k].data) = 4
               /\ 4 * k <= Len(ExpectedTLV(ndef))
               /\ writes[k].data = SubSeq(ExpectedTLV(ndef), 4 * k - 3, 4 * k)
        /\ pc = "done" =>
               /\ Len(writes) = (Len(ndef) + 3 + 3) \div 4
               /\ \A k \in 1..Len(writes) : writes[k].ok
               /\ WrittenBytes = ExpectedTLV(ndef)

C3_Witness ==
    /\ pc = "done"
    /\ Len(ndef) = 254
    /\ Len(writes) = 65
    /\ writes[65].page = 68
    /\ writes[64].data[4] = ndef[254]
    /\ writes[65].data = <<254, 0, 0, 0>>

\* C4: writeNDEFToType2 returns the size error for every message longer than
\* 254 bytes and then issues no page write; for a message of 0..254 bytes it
\* never returns the size error.
C4_SizeLimit ==
    pc # "built" =>
        /\ Len(ndef) > 254 => (pc = "toolarge" /\ writes = <<>>)
        /\ Len(ndef) <= 254 => pc # "toolarge"

C4_Witness == pc = "toolarge" /\ Len(ndef) = 255 /\ writes = <<>>

\* C5: buildURIRecord followed by writeNDEFToType2 either writes no page, or
\* what it writes is (a prefix of) a TLV whose length byte is the true number
\* of record bytes that follow and whose record's payload-length byte is the
\* true number of payload bytes present: no length field is a wrapped value.
C5_FailClosed ==
    writes = <<>> \/
        /\ IsPrefixOf(WrittenBytes, tlv)
        /\ WrittenBytes[1] = 3
        /\ WrittenBytes[2] = Len(ndef)
        /\ SubSeq(tlv, 3, 2 + Len(ndef)) = buildURIRecord(uri)
        /\ tlv[3 + Len(ndef)] = 254
        /\ At(ndef, 2) = Len(ndef) - 4
        /\ At(ndef, 2) = Len(URIPayload(uri))

C5_Witness ==
    /\ pc = "done"
    /\ Len(ndef) = 254
    /\ WrittenBytes[2] = 254
    /\ At(ndef, 2) = 250

\* C6: buildURIRecord always produces a short record and never returns a
\* record whose payload (identifier byte plus URI suffix) exceeds 255 bytes.
C6_PayloadTooLargeRejected ==
    pc # "start" =>
        /\ Len(URIPayload(uri)) > 255 => ndef = <<>>
        /\ ndef # <<>> => (At(ndef, 0) \div 16) % 2 = 1

\* C7: the payload of buildURIRecord(uri) is 0x04 followed by the URI with a
\* single leading "http://" or "https://" removed; what follows that one
\* prefix is kept verbatim, also when it starts with "http://" or "https://".
C7_SingleStrip ==
    pc # "start" => SliceFrom(ndef, 4) = <<4>> \o StripOneScheme(uri)

\* C8 as stated: parseURIPayload reports an error exactly for the empty
\* payload; every payload of length >= 1 decodes to table[payload[0]]
\* followed by payload[1:], with "Unknown prefix" for codes above 0x23.
TablePrefix(code) == IF code <= 35 THEN prefixes[code + 1] ELSE UnknownPrefix

C8_ErrorIffEmpty ==
    uriOut.err # "notcalled" =>
        IF Len(payload) = 0
        THEN uriOut.err = "EmptyURIPayload"
        ELSE /\ uriOut.err = "none"
             /\ uriOut.uri = TablePrefix(payload[1]) \o Tail(payload)

\* C8 amended: parseURIPayload reports an error exactly for the empty payload
\* and for the one-byte payload [0x00] (empty prefix, no suffix); every other
\* payload decodes to table[payload[0]] followed by payload[1:], where table
\* has 36 entries for 0x00..0x23 and codes above 0x23 give "Unknown prefix".
C8_ErrorIffEmptyOrBareZero ==
    /\ Len(prefixes) = 36
    /\ prefixes[1] = <<>> /\ prefixes[4] = HTTP /\ prefixes[5] = HTTPS
    /\ prefixes[14] = FTP
    /\ uriOut.err # "notcalled" =>
        IF Len(payload) = 0 THEN uriOut.err = "EmptyURIPayload"
        ELSE IF payload = <<0>> THEN uriOut.err = "NoSuffix"
        ELSE /\ uriOut.err = "none"
             /\ uriOut.uri = TablePrefix(payload[1]) \o Tail(payload)

C8_Witness ==
    /\ payload = <<36, 97>>
    /\ uriOut.err = "none"
    /\ uriOut.uri = UnknownPrefix \o <<97>>

\* C9: analyzeNDEFStructure reads no byte after the first 0xFE at a TLV type
\* position; an NDEF TLV whose length L fits yields exactly the L bytes after
\* its length byte and the scan resumes right after them; the buffer
\* [0x03,0x05,b1..b5,0xFE,0x99] yields one NDEF entry with value [b1..b5].
C9_StopsAtTerminator ==
    /\ \A k \in 1..Len(entries) :
           entries[k].kind = "Terminator" =>
               /\ k = Len(entries)
               /\ apc = "returned"
               /\ \A i \in touched : i <= entries[k].at
    /\ \A k \in 1..Len(entries) :
           LET e == entries[k]
           IN  (e.kind = "NDEF" /\ e.at + 1 < Len(data)
                    /\ e.at + 2 + At(data, e.at + 1) <= Len(data)) =>
                   /\ e.err = "none"
                   /\ e.value = SubSeq(data, e.at + 3, e.at + 2 + At(data, e.at + 1))
                   /\ IF k < Len(entries)
                      THEN entries[k + 1].at = e.at + 2 + Len(e.value)
                      ELSE offset = e.at + 2 + Len(e.value)
    /\ (data \in ExampleBuffers /\ apc \in {"returned", "ended"}) =>
           /\ Len(entries) = 2
           /\ entries[1].kind = "NDEF"
           /\ entries[1].value = SubSeq(data, 3, 7)
           /\ entries[2].kind = "Terminator"
           /\ parsed = <<SubSeq(data, 3, 7)>>
           /\ 8 \notin touched

C9_Witness ==
    /\ data \in ExampleBuffers
    /\ apc = "returned"
    /\ Len(entries) = 2
    /\ entries[2].kind = "Terminator"

\* C10: an NDEF TLV whose declared length exceeds the bytes remaining after
\* its length byte is reported with a length error, the bytes actually
\* remaining are what the message decoder is handed (nothing is handed when
\* none remain), and the scan stops: it is the last entry.
NDEFCalls == {k \in 1..Len(entries) : entries[k].kind = "NDEF" /\ entries[k].value # <<>>}

C10_TruncatedNDEF ==
    \A k \in 1..Len(entries) :
        LET e == entries[k]
            remaining == Len(data) - e.at - 2
        IN  (e.kind = "NDEF" /\ e.at + 1 < Len(data)
                 /\ At(data, e.at + 1) > remaining) =>
                /\ e.err = "LengthExceeds"
                /\ k = Len(entries)
                /\ apc = "returned"
                /\ e.value = SubSeq(data, e.at + 3, Len(data))
                /\ Len(parsed) = Cardinality(NDEFCalls)
                /\ remaining > 0 => parsed[Len(parsed)] = SubSeq(data, e.at + 3, Len(data))

C10_Witness ==
    /\ apc = "returned"
    /\ Len(entries) = 2
    /\ entries[2].kind = "NDEF"
    /\ entries[2].err = "LengthExceeds"
    /\ Len(entries[2].value) = 2
    /\ parsed = <<entries[2].value>>

\* C11: every type byte in 0x01..0xFD other than 0x03 is a Proprietary TLV of
\* the length-prefixed shape (the next TLV starts at offset+2+L), and one
\* whose length L exceeds the bytes remaining is reported with a
\* malformed-TLV diagnostic and is the last entry.
C11_ProprietaryTruncation ==
    \A k \in 1..Len(entries) :
        LET e == entries[k]
            remaining == Len(data) - e.at - 2
        IN  /\ (At(data, e.at) \in (1..253) \ {3}) <=> e.kind = "Proprietary"
            /\ (e.kind = "Proprietary" /\ e.at + 1 < Len(data)) =>
                   /\ e.length = At(data, e.at + 1)
                   /\ k < Len(entries) => entries[k + 1].at = e.at + 2 + e.length
                   /\ e.length > remaining => (e.err # "none" /\ k = Len(entries))

\* C12: every iteration of the analyzeNDEFStructure loop returns or strictly
\* increases the offset, so there are never more iterations (one entry each)
\* than bytes in the buffer; a 0xFF type byte is reported as Invalid and a
\* 0x00 as Null, and each advances the offset by exactly 1.
C12_Progress ==
    [][ (apc = "scan" /\ offset < Len(data)) =>
            /\ apc' = "returned" \/ (apc' = "scan" /\ offset' > offset)
            /\ Len(entries') = Len(entries) + 1
            /\ Len(entries') <= Len(data)
            /\ At(data, offset) = 255 =>
                   /\ entries'[Len(entries')].kind = "Invalid"
                   /\ offset' = offset + 1
            /\ At(data, offset) = 0 =>
                   /\ entries'[Len(entries')].kind = "Null"
                   /\ offset' = offset + 1 ]_vars

C12_Witness ==
    /\ apc = "ended"
    /\ Len(data) = MaxBuf
    /\ Len(entries) = Len(data)
    /\ \E k \in 1..Len(entries) : entries[k].kind = "Invalid"
    /\ \E k \in 1..Len(entries) : entries[k].kind = "Null"

\* The fields of the record that starts at 0-based offset s of mdata, read
\* off the bytes as the NDEF record layout places them.
FieldsAt(s) ==
    LET b(i) == IF i <= Len(mdata) THEN mdata[i] ELSE 0
        h == b(s + 1)
        sr == (h \div 16) % 2 = 1
        il == (h \div 8) % 2 = 1
        lenEnd == s + 2 + (IF sr THEN 1 ELSE 4) + (IF il THEN 1 ELSE 0)
        tl == b(s + 2)
        pl == IF lenEnd > Len(mdata) THEN 0
              ELSE IF sr THEN b(s + 3)
              ELSE b(s + 3) * 16777216 + b(s + 4) * 65536 + b(s + 5) * 256 + b(s + 6)
        idl == IF il THEN b(lenEnd) ELSE 0
    IN  [sr |-> sr, il |-> il, me |-> (h \div 64) % 2 = 1, mb |-> h >= 128,
         tnf |-> h % 8, lengthsPresent |-> lenEnd <= Len(mdata),
         typeAt |-> lenEnd, tl |-> tl, idl |-> idl, pl |-> pl]

\* Records are decoded in buffer order, each starting where the one before
\* ended (header, type length, 1- or 4-byte big-endian payload length, id
\* length if IL, type, id, payload); decoding stops right after the first
\* complete record with ME=1, or when the buffer is exhausted, which is no
\* error.
RecordBoundaries ==
    /\ \A k \in 1..Len(mrecs) :
           LET e == mrecs[k]
               f == FieldsAt(e.start)
           IN  /\ e.start = IF k = 1 THEN 0 ELSE mrecs[k - 1].next
               /\ k > 1 => (mrecs[k - 1].err = "none" /\ ~mrecs[k - 1].rec.me)
               /\ e.err = "none" <=>
                      (f.lengthsPresent /\ f.typeAt + f.tl + f.idl + f.pl <= Len(mdata))
               /\ e.err = "none" =>
                      /\ e.next = f.typeAt + f.tl + f.idl + f.pl
                      /\ e.rec.type = SubSeq(mdata, f.typeAt + 1, f.typeAt + f.tl)
                      /\ e.rec.id = SubSeq(mdata, f.typeAt + f.tl + 1,
                                           f.typeAt + f.tl + f.idl)
                      /\ e.rec.payload = SubSeq(mdata, f.typeAt + f.tl + f.idl + 1, e.next)
                      /\ e.rec.me = f.me /\ e.rec.mb = f.mb /\ e.rec.tnf = f.tnf
               /\ (e.err = "none" /\ e.rec.me) =>
                      (k = Len(mrecs) /\ mpc = "stopped" /\ moff = e.next)
    /\ mpc = "exhausted" =>
           /\ moff = Len(mdata)
           /\ \A k \in 1..Len(mrecs) : mrecs[k].err = "none" /\ ~mrecs[k].rec.me

\* Decoding the message m, once finished, gives exactly one record: TNF=1,
\* type "U", MB=ME=1, URI u.
OneURIRecord(m, u) ==
    (mdata = m /\ mpc \notin {"start", "loop"}) =>
        /\ mpc = "stopped"
        /\ Len(mrecs) = 1
        /\ mrecs[1].err = "none"
        /\ mrecs[1].rec.tnf = 1 /\ mrecs[1].rec.type = <<85>>
        /\ mrecs[1].rec.mb /\ mrecs[1].rec.me
        /\ mrecs[1].rec.uri.uri = u

ExampleDotCom == <<101, 120, 97, 109, 112, 108, 101, 46, 99, 111, 109>>

C14_TruncatedRecord ==
    \A k \in 1..Len(mrecs) :
        LET e == mrecs[k]
            f == FieldsAt(e.start)
            n == Len(mdata)
            typeOver == f.tl > 0 /\ f.typeAt + f.tl > n
            idOver == ~typeOver /\ f.il /\ f.idl > 0 /\ f.typeAt + f.tl + f.idl > n
            plAt == f.typeAt + f.tl + f.idl
            plOver == ~typeOver /\ ~idOver /\ f.pl > 0 /\ plAt + f.pl > n
        IN  (f.lengthsPresent /\ (typeOver \/ idOver \/ plOver)) =>
                /\ e.err = IF typeOver THEN "TypeTruncated"
                           ELSE IF idOver THEN "IDTruncated" ELSE "PayloadTruncated"
                /\ e.rec.payload = IF plOver THEN SubSeq(mdata, plAt + 1, n) ELSE <<>>
                /\ e.rec.partial = (plOver /\ plAt < n)
                /\ k = Len(mrecs)
                /\ mpc = "stopped"

C14_Witness ==
    /\ mpc = "stopped"
    /\ Len(mrecs) = 2
    /\ mrecs[2].err = "PayloadTruncated"
    /\ mrecs[2].rec.payload = <<4>>
    /\ mrecs[2].rec.uri.uri = HTTPS

ReadOk(p) == \E k \in 1..Len(reads) : reads[k].page = p /\ reads[k].ok

ReadFailed(p) == \E k \in 1..Len(reads) : reads[k].page = p /\ ~reads[k].ok

FirstByteOfPage0 == IF Len(reads[1].data) >= 1 THEN reads[1].data[1] ELSE -1

\* C15: identifyTagType returns "unknown" when the read of page 0 fails, the
\* generic Type 2 class when page 0 is read with a first byte other than
\* 0x04, and with first byte 0x04 NTAG213 / NTAG215 / NTAG216 as the reads of
\* pages 0x2C and 0x86 fail or succeed; nothing else decides the result.
C15_Classification ==
    tpc = "done" =>
        tagType =
            IF ReadFailed(0) THEN "unknown"
            ELSE IF FirstByteOfPage0 = -1 THEN "unknown"
            ELSE IF FirstByteOfPage0 # 4 THEN "Type2-compatible"
            ELSE IF ReadFailed(44) THEN "NTAG213"
            ELSE IF ReadFailed(134) THEN "NTAG215"
            ELSE "NTAG216"

C15_Witness ==
    /\ tpc = "done"
    /\ tagType = "NTAG215"
    /\ ReadOk(0) /\ FirstByteOfPage0 = 4 /\ ReadOk(44) /\ ReadFailed(134)

FormatPlan ==
    <<[page |-> 2, data |-> <<0, 0, 0, 0>>],
      [page |-> 3, data |-> <<225, 16, 63, 0>>],
      [page |-> 4, data |-> <<0, 0, 0, 254>>]>>

\* C16: one run of the detector requests page 0, then 0x2C, then 0x86, each at
\* most once and none after the outcome that classifies the tag; one run of
\* the formatter writes each of pages 2, 3, 4 at most once and issues nothing
\* after a failed write.
C16_NoRetry ==
    /\ Len(reads) <= 3
    /\ \A k \in 1..Len(reads) : reads[k].page = <<0, 44, 134>>[k]
    /\ \A k \in 1..Len(reads) :
           (k < Len(reads) \/ tpc # "done") =>
               (reads[k].ok /\ Len(reads[1].data) >= 1 /\ reads[1].data[1] = 4)
    /\ (tpc = "done") = (tagType # "")
    /\ tpc = "page0" => Len(reads) = 0
    /\ tpc = "page2C" => Len(reads) = 1
    /\ tpc = "page86" => Len(reads) = 2
    /\ Len(writes) <= 3
    /\ \A j, k \in 1..Len(writes) : j # k => writes[j].page # writes[k].page
    /\ \A k \in 1..Len(writes) : writes[k].page \in {2, 3, 4}
    /\ \A k \in 1..Len(writes) : ~writes[k].ok => k = Len(writes)

C16_Witness ==
    /\ tpc = "done" /\ Len(reads) = 3 /\ ~reads[3].ok
    /\ Len(writes) = 2 /\ ~writes[2].ok /\ fresult = "errCC"

\* C17: the writes of formatType2Tag are a prefix of (page 2, zeros),
\* (page 3, E1 10 3F 00), (page 4, 00 00 00 FE); a step is issued only after
\* the one before succeeded; the first failure ends the run with an error,
\* the pages already written keep what was written; success is returned
\* exactly when all three writes succeeded.
C17_WritePlan ==
    /\ Len(writes) <= 3
    /\ \A k \in 1..Len(writes) :
           /\ writes[k].page = FormatPlan[k].page
           /\ writes[k].data = FormatPlan[k].data
           /\ k < Len(writes) => writes[k].ok
           /\ writes[k].ok => mem[writes[k].page] = writes[k].data
    /\ fresult = "ok" <=> (Len(writes) = 3 /\ \A k \in 1..3 : writes[k].ok)
    /\ fresult \in {"errLock", "errCC", "errNDEF"} <=>
           (Len(writes) >= 1 /\ ~writes[Len(writes)].ok)
    /\ fresult = "errLock" => Len(writes) = 1
    /\ fresult = "errCC" => Len(writes) = 2
    /\ fresult = "errNDEF" => Len(writes) = 3
    /\ fresult \in {"lock", "cc", "ndef", "ok", "errLock", "errCC", "errNDEF"}

C17_Witness ==
    /\ fresult = "errNDEF"
    /\ Len(writes) = 3
    /\ mem[2] = <<0, 0, 0, 0>> /\ mem[3] = <<225, 16, 63, 0>>
    /\ mem[4] = <<4, 4, 4, 4>>

\* Formatting leaves pages 0-1 and every page from 5 on as they were.
FormatFrameOtherPages ==
    [][\A p \in DOMAIN mem : p \notin {2, 3, 4} => mem'[p] = mem[p]]_vars

\* C18: formatType2Tag changes in page 2 only bytes 2-3; bytes 0-1 of page 2,
\* pages 0-1 and every page from 5 on hold the same values after as before.
C18_FormatFrame ==
    [][/\ \A p \in DOMAIN mem : p \notin {2, 3, 4} => mem'[p] = mem[p]
       /\ mem'[2][1] = mem[2][1]
       /\ mem'[2][2] = mem[2][2]]_vars

\* Bit i (0 = least significant) of the byte b is set.
BitSet(b, i) == (b % (2 ^ (i + 1))) >= 2 ^ i

StaticReport == \E k \in 1..Len(labels) : labels[k].label = "Static Lock"

\* C19: the pages reported as locked are exactly 3+i for the set bits i of
\* lock0 (i < 8) and of lock1 (bit i-8, 8 <= i < 16), in increasing order and
\* within 3..18; 0x01,0x00 reports page 3 alone and 0x00,0x00 reports none.
C19_StaticLockDecode ==
    StaticReport =>
        LET lock0 == mem[2][3]
            lock1 == mem[2][4]
        IN  /\ {lockedPages[k] : k \in 1..Len(lockedPages)} =
                   {3 + i : i \in {j \in 0..7 : BitSet(lock0, j)}}
                   \cup {3 + i : i \in {j \in 8..15 : BitSet(lock1, j - 8)}}
            /\ \A k \in 1..Len(lockedPages) - 1 : lockedPages[k] < lockedPages[k + 1]
            /\ \A k \in 1..Len(lockedPages) : lockedPages[k] \in 3..18
            /\ (lock0 = 1 /\ lock1 = 0) => lockedPages = <<3>>
            /\ (lock0 = 0 /\ lock1 = 0) => lockedPages = <<>>

C19_Witness ==
    /\ StaticReport
    /\ mem[2][3] = 129 /\ mem[2][4] = 130
    /\ lockedPages = <<3, 10, 12, 18>>

\* The family's dynamic lock page.
FamilyDynamicLockPage ==
    CASE tagType = "NTAG213" -> 42
      [] tagType = "NTAG215" -> 130
      [] tagType = "NTAG216" -> 226

\* The pages analyzeLockBytes labels are the family's.
AnalyzeLockBytesPages ==
    \A k \in 1..Len(labels) :
        labels[k].by = "analyzeLockBytes" =>
            /\ labels[k].label = "Dynamic Lock" => labels[k].page = FamilyDynamicLockPage
            /\ labels[k].label = "Configuration" => labels[k].page = FamilyDynamicLockPage + 1

\* C20: for NTAG213 / NTAG215 / NTAG216 every page labelled as the dynamic
\* lock page is 0x2A / 0x82 / 0xE2 and every page labelled as the
\* configuration page is the one after it, in analyzeLockBytes and in the
\* configuration listing of readFullTag alike.
C20_FamilyPages ==
    \A k \in 1..Len(labels) :
        /\ labels[k].label = "Dynamic Lock" => labels[k].page = FamilyDynamicLockPage
        /\ labels[k].label = "Configuration" => labels[k].page = FamilyDynamicLockPage + 1

\* Bit k (0 = least significant) of the status byte of tpayload.
StatusBit(k) == (tpayload[1] % (2 ^ (k + 1))) >= 2 ^ k

\* The value of bits 0-5 of the status byte.
StatusLow6 == tpayload[1] - 64 * (tpayload[1] \div 64)

\* tpayload with bit 6 of its status byte flipped.
FlipBit6 ==
    [tpayload EXCEPT ![1] = IF StatusBit(6) THEN tpayload[1] - 64 ELSE tpayload[1] + 64]

\* C21: for a non-empty text payload the UTF-16 flag is bit 7 of the status
\* byte and the language-code length L is its bits 0-5, bit 6 having no
\* effect; if L <= len-1 the language code is the next L bytes and the text
\* is everything after, otherwise the record is reported invalid with no
\* language or text; [0x02,'e','n',...] gives "en", UTF-8, the rest as text.
C21_TextDecode ==
    (textOut.err # "notcalled" /\ Len(tpayload) > 0) =>
        LET L == StatusLow6
        IN  /\ textOut = parseTextPayload(FlipBit6)
            /\ IF L <= Len(tpayload) - 1
                 THEN /\ textOut.err = "none"
                      /\ textOut.utf16 = StatusBit(7)
                      /\ textOut.lang = SubSeq(tpayload, 2, L + 1)
                      /\ textOut.text = SubSeq(tpayload, L + 2, Len(tpayload))
                      /\ Len(textOut.lang) + Len(textOut.text) = Len(tpayload) - 1
                 ELSE /\ textOut.err = "InvalidTextRecord"
                      /\ textOut.lang = <<>> /\ textOut.text = <<>>
            /\ (tpayload[1] = 2 /\ Len(tpayload) >= 3 /\ tpayload[2] = 101 /\ tpayload[3] = 110) =>
                   /\ textOut.lang = <<101, 110>>
                   /\ ~textOut.utf16
                   /\ textOut.text = SubSeq(tpayload, 4, Len(tpayload))

C21_Witness ==
    /\ tpayload = <<66, 101, 110, 110, 101>>
    /\ textOut.err = "none"
    /\ textOut.lang = <<101, 110>>
    /\ textOut.text = <<110, 101>>

\* The event before events[i] is op on page pg and succeeded.
After(i, op, pg) ==
    /\ i > 1
    /\ events[i - 1].op = op /\ events[i - 1].page = pg /\ events[i - 1].ok

\* Connect, read UID, format, write URL come in that order; nothing is
\* written without the UID; the TLV is written only after the three format
\* writes succeeded; a failure skips every later step; the card is
\* disconnected after processing in every case.
WorkflowOrder ==
    /\ \A i \in 1..Len(events) :
           LET e == events[i]
           IN  /\ e.op = "connect" =>
                      (i = 1 \/ events[i - 1].op = "removed")
               /\ e.op = "getUID" => After(i, "connect", 0)
               /\ (e.op = "format" /\ e.page = 2) => After(i, "getUID", 0)
               /\ (e.op = "format" /\ e.page = 3) => After(i, "format", 2)
               /\ (e.op = "format" /\ e.page = 4) => After(i, "format", 3)
               /\ (e.op = "ndef" /\ e.page = 4) => After(i, "format", 4)
               /\ (e.op = "ndef" /\ e.page > 4) => After(i, "ndef", e.page - 1)
               /\ e.op = "wrote" => (i > 1 /\ events[i - 1].op = "ndef" /\ events[i - 1].ok)
               /\ (e.op \in {"getUID", "format", "ndef"} /\ ~e.ok /\ i < Len(events)) =>
                      events[i + 1].op = "disconnect"
               /\ (e.op = "connect" /\ ~e.ok /\ i < Len(events)) =>
                      events[i + 1].op = "removed"
               /\ e.op = "removed" =>
                      (i > 1 /\ \/ events[i - 1].op = "disconnect"
                                \/ (events[i - 1].op = "connect" /\ ~events[i - 1].ok))
               /\ e.op = "disconnect" =>
                      \E j \in 1..(i - 1) :
                          /\ events[j].op = "connect" /\ events[j].ok
                          /\ \A k \in (j + 1)..(i - 1) :
                                 events[k].op \notin {"connect", "disconnect", "removed"}
    /\ \A k \in 1..Len(writes) :
           \E i \in 1..Len(events) :
               events[i].op \in {"format", "ndef"} /\ events[i].page = writes[k].page
    /\ wpc \in {"waitRemoval", "waitPresent"} => ~connected

\* waitForCardRemoval returns only when the card is off the reader, and no
\* placement is connected to twice.
OncePerPlacement ==
    /\ \A i \in 1..Len(events) : events[i].op = "removed" => ~events[i].present
    /\ \A i, j \in 1..Len(events) :
           (i < j /\ events[i].op = "connect" /\ events[j].op = "connect") =>
               events[i].placement < events[j].placement

\* C22: per card placement the writer loop connects, reads the UID, formats
\* and writes the URL in that order, writes no page without the UID, writes
\* the TLV only after the three format writes succeeded, skips every later
\* step after a failure, disconnects in every case, and waits for the card
\* to be removed before the next placement, so that one placement is
\* processed at most once.
C22_WorkflowOrder ==
    WorkflowOrder /\ OncePerPlacement

\* The data area of the tag: the bytes of pages 4 and up.
DataArea == PagesFrom(4, AreaPages)

\* The number of 0x00 bytes the data area starts with.
RECURSIVE LeadingNulls(_)
LeadingNulls(s) == IF s # <<>> /\ s[1] = 0 THEN 1 + LeadingNulls(Tail(s)) ELSE 0

\* The data area holds, after null TLVs, an NDEF TLV with all its value
\* bytes and a terminator TLV right after it.
WellFormedArea ==
    LET z == LeadingNulls(DataArea)
    IN  /\ z + 2 <= Len(DataArea)
        /\ DataArea[z + 1] = 3
        /\ DataArea[z + 2] > 0
        /\ z + 3 + DataArea[z + 2] <= Len(DataArea)
        /\ DataArea[z + 3 + DataArea[z + 2]] = 254

AreaMessage ==
    LET z == LeadingNulls(DataArea)
    IN  SubSeq(DataArea, z + 3, z + 2 + DataArea[z + 2])

AnalysisDone == spc = "analysis" /\ apc \in {"returned", "ended"}

\* C28: for a tag whose data area holds a well-formed NDEF TLV followed by a
\* terminator and whose pages all read successfully, the buffer handed to
\* analyzeNDEFStructure holds the complete NDEF message and the analysis
\* reports it without a truncation error, whatever the message bytes are.
C28_ScanToTerminator ==
    (AnalysisDone /\ faults = 0 /\ WellFormedArea) =>
        /\ Len(data) >= LeadingNulls(DataArea) + 2 + Len(AreaMessage)
        /\ parsed = <<AreaMessage>>
        /\ \A k \in 1..Len(entries) : entries[k].err = "none"

\* The buffer is the tag's bytes from page 4 on, in place.
BufferInPlace ==
    \A k \in 1..Len(data) : origin[k] = [page |-> 4 + ((k - 1) \div 4), byte |-> (k - 1) % 4]

\* C29: whenever readFullTag calls analyzeNDEFStructure, byte k of the buffer
\* is byte (k mod 4) of page 4 + floor(k/4), so every "Page p, Byte b" the
\* analysis reports is the true address of that byte, for any pattern of
\* read failures and alternative-read results.
C29_BufferAddressing ==
    spc = "analysis" =>
        /\ data = allNDEFData
        /\ BufferInPlace
        /\ \A k \in 1..Len(entries) :
               origin[entries[k].at + 1] =
                   [page |-> 4 + (entries[k].at \div 4), byte |-> entries[k].at % 4]

UpperHexDigits == <<48, 49, 50, 51, 52, 53, 54, 55, 56, 57, 65, 66, 67, 68, 69, 70>>

\* The upper-case hex of a byte sequence.
UpperHex(bytes) ==
    [k \in 1..(2 * Len(bytes)) |->
        LET b == bytes[(k + 1) \div 2]
        IN  UpperHexDigits[(IF k % 2 = 1 THEN b \div 16 ELSE b % 16) + 1]]

\* The writer reported "Wrote URL to tag".
AllWritten == \E i \in 1..Len(events) : events[i].op = "wrote"

\* C23: if every write of the nfcwriter workflow succeeded, a later reader
\* pass over the tag (page scan from page 4, TLV analysis, message decode,
\* URI decode) reports exactly one NDEF TLV with exactly one URI record, whose
\* URI is "https://dnd.qrand.me/r/" followed by the upper-case hex of the
\* UID, then the terminator, whatever the pages held before.
C23_WriteThenRead ==
    (AllWritten /\ AnalysisDone /\ faults = 0) =>
        /\ Len(entries) = 2
        /\ entries[1].kind = "NDEF" /\ entries[1].err = "none" /\ entries[1].at = 0
        /\ entries[2].kind = "Terminator"
        /\ apc = "returned"
        /\ Len(parsed) = 1
        /\ LET m == parseNDEFMessage(parsed[1])
           IN  /\ m.err = "none"
               /\ Len(m.records) = 1
               /\ m.records[1].tnf = 1 /\ m.records[1].type = <<85>>
               /\ m.records[1].uri.err = "none"
               /\ m.records[1].uri.uri =
                      <<104, 116, 116, 112, 115, 58, 47, 47, 100, 110, 100, 46, 113, 114,
                        97, 110, 100, 46, 109, 101, 47, 114, 47>> \o UpperHex(cardUID)

C23_Witness ==
    /\ AllWritten /\ AnalysisDone /\ faults = 0
    /\ cardUID = <<8, 26, 254, 60, 77, 94, 111>>
    /\ mem[14] = <<17, 17, 17, 17>>
    /\ Len(data) = 40

\* The 16-bit halves of the number a string of decimal digits denotes.
RECURSIVE DecimalValue(_)
DecimalValue(s) ==
    IF s = <<>> THEN [hi |-> 0, lo |-> 0]
    ELSE LET v == DecimalValue(SubSeq(s, 1, Len(s) - 1))
             lo10 == v.lo * 10 + (s[Len(s)] - 48)
         IN  [hi |-> v.hi * 10 + (lo10 \div 65536), lo |-> lo10 % 65536]

IsDecimal(s) ==
    /\ Len(s) >= 1
    /\ \A k \in 1..Len(s) : s[k] \in 48..57
    /\ Len(s) > 1 => s[1] # 48

\* The UID as a big-endian unsigned integer of at most four bytes.
BigEndianHalves(uid) ==
    LET p == Repeat(0, 4 - Len(uid)) \o uid
    IN  [hi |-> 256 * p[1] + p[2], lo |-> 256 * p[3] + p[4]]

\* C24: "hex" gives the upper-case hex of the bytes in order, "hex-reversed"
\* that of the bytes in reverse order (reversing twice gives the "hex"
\* result), "decimal" the decimal value of the bytes as a big-endian unsigned
\* integer below 2^32 for at most 4 bytes and the "hex" result for more, and
\* any other format the "hex" result.
C24_UIDFormats ==
    fout # NotFormatted =>
        /\ fformat = "hex" => fout = UpperHex(fuid)
        /\ fformat = "hex-reversed" =>
               /\ Len(fout) = 2 * Len(fuid)
               /\ \A k \in 1..Len(fuid) :
                      SubSeq(fout, 2 * k - 1, 2 * k) = UpperHex(<<fuid[Len(fuid) + 1 - k]>>)
               /\ formatUID(Reversed(fuid), "hex-reversed") = UpperHex(fuid)
        /\ (fformat = "decimal" /\ Len(fuid) <= 4) =>
               /\ IsDecimal(fout)
               /\ Len(fout) <= 10
               /\ DecimalValue(fout) = BigEndianHalves(fuid)
               /\ DecimalValue(fout).hi <= 65535
        /\ (fformat = "decimal" /\ Len(fuid) > 4) => fout = UpperHex(fuid)
        /\ fformat \notin {"hex", "hex-reversed", "decimal"} => fout = UpperHex(fuid)

C24_Witness ==
    /\ fformat = "decimal"
    /\ fuid = <<255, 255, 255, 255>>
    /\ fout = <<52, 50, 57, 52, 57, 54, 55, 50, 57, 53>>

\* ------------------------------------------------------------------
\* The UID service (uid/main.go): NFCService with its main goroutine,
\* the signal goroutine started by Start, and the card on the reader.
\* ------------------------------------------------------------------

MaxRetries == 10

envvars == <<wvars, uvars, avars, mvars, tvars, kvars, xvars, lvars, rvars, fvars>>

\* The lowest context id not handed out yet, 0 when the bound is reached.
FreshCtx ==
    IF \E c \in 1..MaxCtx : ctxs[c].state = "unused"
    THEN CHOOSE c \in 1..MaxCtx :
             /\ ctxs[c].state = "unused"
             /\ \A d \in 1..(c - 1) : ctxs[d].state # "unused"
    ELSE 0

\* scard.EstablishContext returning context c.
Established(cs, c, good) ==
    [cs EXCEPT ![c] = [state |-> "live", releases |-> 0, good |-> good]]

\* ctx.Release() on context c; the call is made whether or not c is live.
Released(cs, c) ==
    [cs EXCEPT ![c] = [state |-> "released", releases |-> cs[c].releases + 1,
                       good |-> cs[c].good]]

\* A reader call on context c can succeed only while c is live.
CallOutcomes(c) ==
    IF c # 0 /\ ctxs[c].state = "live" THEN BOOLEAN ELSE {FALSE}

\* The call is on a context that was released before.
OnReleased(c) ==
    c # 0 /\ ctxs[c].state = "released"

\* What the main goroutine reads from s.running: the write of the signal
\* goroutine is not synchronised with the loop's reads, so until it has
\* reached the main goroutine the loop still reads its own write, true.
MainSeesRunning ==
    IF visible THEN running ELSE TRUE

InitService ==
    /\ sctx = 0 /\ ctxSeen = {} /\ ctxs = [c \in 1..MaxCtx |-> NoContext]
    /\ running = FALSE /\ visible = TRUE /\ usedReleased = FALSE /\ initOk = FALSE
    /\ upc = "new" /\ gpc = "idle" /\ utries = 0 /\ ucycles = 0 /\ copies = <<>>
    /\ present = FALSE /\ placement = 0
    /\ cardUID \in {<<>>, <<4, 171, 205, 239>>}
    /\ cycles = 0 /\ wpc = "idle" /\ tries = 0 /\ connected = FALSE
    /\ polled = FALSE /\ uidv = <<>> /\ events = <<>>
    /\ mem = MainTag /\ reads = <<>> /\ tagType = "" /\ tpc = "idle" /\ fresult = "idle"
    /\ WriterIdle /\ URIIdle /\ AnalyzeIdle /\ MessageIdle /\ LockIdle /\ TextIdle
    /\ ReaderIdle /\ FormatIdle

\* Initialize: EstablishContext, s.ctx = ctx, findReader; when findReader
\* fails the context is released and s.ctx keeps pointing at it.
Initialize ==
    /\ upc = "new"
    /\ \E est \in BOOLEAN, found \in BOOLEAN :
          IF ~est
          THEN /\ upc' = "initFailed"
               /\ UNCHANGED <<sctx, ctxs, initOk>>
          ELSE LET c == FreshCtx IN
               /\ sctx' = c
               /\ IF found
                  THEN /\ ctxs' = Established(ctxs, c, TRUE)
                       /\ initOk' = TRUE
                       /\ upc' = "initialized"
                  ELSE /\ ctxs' = Released(Established(ctxs, c, FALSE), c)
                       /\ upc' = "initFailed"
                       /\ UNCHANGED initOk
    /\ UNCHANGED <<ctxSeen, running, visible, usedReleased, gpc, utries, ucycles, copies,
                   envvars>>

\* Start up to the loop: the nil check, running = true, signal.Notify and
\* the go statement of the signal goroutine.
Start ==
    /\ upc \in {"new", "initFailed", "initialized"}
    /\ IF sctx = 0
       THEN /\ upc' = "notInitialized"
            /\ UNCHANGED <<running, gpc, ctxSeen>>
       ELSE /\ running' = TRUE
            /\ gpc' = "waiting"
            /\ ctxSeen' = {sctx}
            /\ upc' = "loop"
    /\ UNCHANGED <<sctx, ctxs, visible, usedReleased, initOk, utries, ucycles, copies,
                   envvars>>

\* A loop head that does not read s.running.
StartLoopForever ==
    /\ upc = "loop"
    /\ ucycles < MaxServiceCycles
    /\ upc' = "waitPresent"
    /\ ucycles' = ucycles + 1
    /\ UNCHANGED <<sctx, ctxSeen, ctxs, running, visible, usedReleased, initOk, gpc, utries,
                   copies, envvars>>

\* for s.running { processCardCycle ... }; return nil
StartLoop ==
    /\ upc = "loop"
    /\ IF ~MainSeesRunning
       THEN /\ upc' = "returned"
            /\ UNCHANGED ucycles
       ELSE /\ ucycles < MaxServiceCycles
            /\ upc' = "waitPresent"
            /\ ucycles' = ucycles + 1
    /\ UNCHANGED <<sctx, ctxSeen, ctxs, running, visible, usedReleased, initOk, gpc, utries,
                   copies, envvars>>

\* One pass of the loop in waitForCardPresent(5s), called by
\* processCardCycle: past the deadline or with running false it returns
\* false and the cycle returns nil; a failed GetStatusChange continues.
waitForCardPresent ==
    /\ upc = "waitPresent"
    /\ \/ /\ upc' = "sleep"
          /\ UNCHANGED usedReleased
       \/ /\ MainSeesRunning
          /\ usedReleased' = (usedReleased \/ OnReleased(sctx))
          /\ \E ok \in CallOutcomes(sctx) :
                IF ok /\ present
                THEN upc' = "connect"
                ELSE upc' = upc
    /\ utries' = 0
    /\ UNCHANGED <<sctx, ctxSeen, ctxs, running, visible, initOk, gpc, ucycles, copies,
                   envvars>>

\* connectToCard: up to MaxRetries calls of Connect; on the last failure
\* processCardCycle goes to waitForCardRemoval(1s) and returns the error.
connectToCard ==
    /\ upc = "connect"
    /\ usedReleased' = (usedReleased \/ OnReleased(sctx))
    /\ \E ok \in CallOutcomes(sctx) :
          IF ok /\ present
          THEN /\ upc' = "getUID"
               /\ UNCHANGED utries
          ELSE /\ utries' = utries + 1
               /\ upc' = IF utries + 1 >= MaxRetries THEN "briefWait" ELSE upc
    /\ UNCHANGED <<sctx, ctxSeen, ctxs, running, visible, initOk, gpc, ucycles, copies,
                   envvars>>

\* getUID on the connected card; an error ends the cycle with that error.
ServiceGetUID ==
    /\ upc = "getUID"
    /\ \E ok \in (IF present THEN BOOLEAN ELSE {FALSE}) :
          upc' = IF ok THEN "processUID" ELSE "recover"
    /\ UNCHANGED <<sctx, ctxSeen, ctxs, running, visible, usedReleased, initOk, gpc, utries,
                   ucycles, copies, envvars>>

\* processUID: an empty UID or a failed clipboard write is an error; the
\* paste that follows a copy only logs its error.
processUID ==
    /\ upc = "processUID"
    /\ \E copied \in BOOLEAN :
          IF Len(cardUID) = 0 \/ ~copied
          THEN /\ upc' = "recover"
               /\ UNCHANGED copies
          ELSE /\ copies' = Append(copies, [uid |-> cardUID, placement |-> placement])
               /\ upc' = "waitRemoval"
    /\ UNCHANGED <<sctx, ctxSeen, ctxs, running, visible, usedReleased, initOk, gpc, utries,
                   ucycles, envvars>>

\* One pass of the loop in waitForCardRemoval(timeout): it returns when a
\* poll reports no card, past the deadline, or with running false.
RemovalPass(at, then) ==
    /\ upc = at
    /\ \/ /\ upc' = then
          /\ UNCHANGED usedReleased
       \/ /\ MainSeesRunning
          /\ usedReleased' = (usedReleased \/ OnReleased(sctx))
          /\ \E ok \in CallOutcomes(sctx) :
                IF ok /\ ~present
                THEN upc' = then
                ELSE upc' = upc
    /\ UNCHANGED <<sctx, ctxSeen, ctxs, running, visible, initOk, gpc, utries, ucycles, copies,
                   envvars>>

\* s.waitForCardRemoval(1 * time.Second) after a failed connect.
waitForCardRemovalBrief ==
    RemovalPass("briefWait", "recover")

\* A removal wait without a deadline, left only on a poll without a card or
\* with running false.
waitForCardRemovalNoDeadline ==
    /\ upc = "waitRemoval"
    /\ usedReleased' = (usedReleased \/ (MainSeesRunning /\ OnReleased(sctx)))
    /\ \E ok \in CallOutcomes(sctx) :
          IF ~MainSeesRunning \/ (ok /\ ~present)
          THEN upc' = "sleep"
          ELSE upc' = upc
    /\ UNCHANGED <<sctx, ctxSeen, ctxs, running, visible, initOk, gpc, utries, ucycles, copies,
                   envvars>>

\* s.waitForCardRemoval(10 * time.Second) after the UID was processed.
waitForCardRemoval ==
    RemovalPass("waitRemoval", "sleep")

\* recoverReader, first statement: if s.ctx != nil { s.ctx.Release() }
recoverRelease ==
    /\ upc = "recover"
    /\ ctxs' = IF sctx # 0 THEN Released(ctxs, sctx) ELSE ctxs
    /\ upc' = "recoverEstablish"
    /\ UNCHANGED <<sctx, ctxSeen, running, visible, usedReleased, initOk, gpc, utries, ucycles,
                   copies, envvars>>

\* recoverReader: EstablishContext; on an error s.ctx keeps the old value.
recoverEstablish ==
    /\ upc = "recoverEstablish"
    /\ \E est \in (IF FreshCtx # 0 THEN BOOLEAN ELSE {FALSE}) :
          IF est
          THEN /\ sctx' = FreshCtx
               /\ ctxSeen' = ctxSeen \cup {FreshCtx}
               /\ ctxs' = Established(ctxs, FreshCtx, FALSE)
               /\ upc' = "recoverFind"
          ELSE /\ upc' = "sleep"
               /\ UNCHANGED <<sctx, ctxSeen, ctxs>>
    /\ UNCHANGED <<running, visible, usedReleased, initOk, gpc, utries, ucycles, copies,
                   envvars>>

\* recoverReader: findReader on the new context.
recoverFind ==
    /\ upc = "recoverFind"
    /\ usedReleased' = (usedReleased \/ OnReleased(sctx))
    /\ \E found \in CallOutcomes(sctx) :
          ctxs' = IF found THEN [ctxs EXCEPT ![sctx].good = TRUE] ELSE ctxs
    /\ upc' = "sleep"
    /\ UNCHANGED <<sctx, ctxSeen, running, visible, initOk, gpc, utries, ucycles, copies,
                   envvars>>

\* time.Sleep(ReadInterval) at the end of a loop pass.
StartSleep ==
    /\ upc = "sleep"
    /\ upc' = "loop"
    /\ UNCHANGED <<sctx, ctxSeen, ctxs, running, visible, usedReleased, initOk, gpc, utries,
                   ucycles, copies, envvars>>

\* The signal goroutine: <-sigChan
SignalDelivered ==
    /\ gpc = "waiting"
    /\ gpc' = "stop"
    /\ UNCHANGED <<sctx, ctxSeen, ctxs, running, visible, usedReleased, initOk, upc, utries,
                   ucycles, copies, envvars>>

\* Stop in the signal goroutine: s.running = false
StopRunning ==
    /\ gpc = "stop"
    /\ running' = FALSE
    /\ visible' = FALSE
    /\ gpc' = "release"
    /\ UNCHANGED <<sctx, ctxSeen, ctxs, usedReleased, initOk, upc, utries, ucycles, copies,
                   envvars>>

\* Stop in the signal goroutine: if s.ctx != nil { s.ctx.Release() }. The
\* read of s.ctx is not synchronised with recoverReader's write, so it
\* yields any value s.ctx has held since the goroutine was started.
StopRelease ==
    /\ gpc = "release"
    /\ \E c \in ctxSeen : ctxs' = Released(ctxs, c)
    /\ gpc' = "done"
    /\ UNCHANGED <<sctx, ctxSeen, running, visible, usedReleased, initOk, upc, utries, ucycles,
                   copies, envvars>>

\* The write to s.running reaches the main goroutine.
RunningVisible ==
    /\ ~visible
    /\ visible' = TRUE
    /\ UNCHANGED <<sctx, ctxSeen, ctxs, running, usedReleased, initOk, upc, gpc, utries,
                   ucycles, copies, envvars>>

\* main: the deferred service.Stop() once Start has returned.
DeferredStop ==
    /\ upc = "returned"
    /\ initOk
    /\ running' = FALSE
    /\ ctxs' = IF sctx # 0 THEN Released(ctxs, sctx) ELSE ctxs
    /\ upc' = "exited"
    /\ UNCHANGED <<sctx, ctxSeen, visible, usedReleased, initOk, gpc, utries, ucycles, copies,
                   envvars>>

ServiceMain ==
    \/ Initialize \/ Start \/ StartLoop \/ waitForCardPresent \/ connectToCard
    \/ ServiceGetUID \/ processUID \/ waitForCardRemovalBrief \/ waitForCardRemoval
    \/ recoverRelease \/ recoverEstablish \/ recoverFind \/ StartSleep \/ DeferredStop

ServiceSignal ==
    \/ StopRunning \/ StopRelease

NextService ==
    \/ Initialize \/ Start \/ StartLoop \/ waitForCardPresent \/ connectToCard
    \/ ServiceGetUID \/ processUID \/ waitForCardRemovalBrief \/ waitForCardRemoval
    \/ recoverRelease \/ recoverEstablish \/ recoverFind \/ StartSleep \/ DeferredStop
    \/ SignalDelivered \/ StopRunning \/ StopRelease \/ RunningVisible
    \/ CardPlace \/ CardRemove

SpecService == InitService /\ [][NextService]_vars

\* C25: the service processes a card once per placement: no two clipboard
\* copies are made during the same continuous presence of a card; a second
\* copy needs the card to have been removed and a card placed again.
C25_OncePerPlacement ==
    \A i \in 1..Len(copies), j \in 1..Len(copies) :
        i < j => copies[i].placement # copies[j].placement

\* The service under fair scheduling: each goroutine that can step does so,
\* every reader call returns, and the write to s.running reaches the main
\* goroutine in finite time. Signals are delivered or not, as they come.
SpecServiceLive ==
    /\ InitService
    /\ [][NextService]_vars
    /\ WF_vars(ServiceMain)
    /\ WF_vars(ServiceSignal)
    /\ WF_vars(RunningVisible)

Signalled == gpc \in {"stop", "release", "done"}

StartReturned == upc \in {"returned", "exited"}

InWait == upc \in {"waitPresent", "waitRemoval", "briefWait"}

EstablishedContexts == {c \in 1..MaxCtx : ctxs[c].state # "unused"}

\* C27: under every interleaving of the signal goroutine's Stop with the
\* main loop and with the deferred Stop in main, every context the service
\* establishes is released exactly once (never more than once, and once when
\* main has finished), and no reader call is issued on a released context.
\* The runs are those of main, where Start follows a successful Initialize.
C27_ContextLifetime ==
    initOk =>
        /\ \A c \in EstablishedContexts : ctxs[c].releases <= 1
        /\ upc = "exited" => \A c \in EstablishedContexts : ctxs[c].releases = 1
        /\ ~usedReleased

CycleCalls == upc \in {"waitPresent", "connect", "briefWait", "waitRemoval"}

\* C30: Start returns the "service not initialized" error, without setting
\* running and without entering the loop, in every state in which no call of
\* Initialize has succeeded; and the loop issues its reader calls only on a
\* context that a successful Initialize or recovery established and that has
\* not been released.
C30_StartGuard ==
    /\ [][(Start /\ ~initOk) => (upc' = "notInitialized" /\ ~running')]_vars
    /\ [](CycleCalls => (sctx # 0 /\ ctxs[sctx].state = "live" /\ ctxs[sctx].good))

====
